---- MODULE Spec2Model ----
(***************************************************************************)
(* A model of the status-tracking services of the tipping SDK:             *)
(*   TransactionStatusService  (src/src/services/TransactionStatusService) *)
(*   RelayStatusService        (src/src/services/RelayStatusService)       *)
(*                                                                         *)
(* JavaScript runs the services on one event loop.  A synchronous stretch  *)
(* of code (from a call or a resumption up to the next await that really   *)
(* suspends) is one action.  A poll loop is suspended either on its        *)
(* external read ("reading") or on its setTimeout ("sleeping").            *)
(* Time is counted per loop: `elapsed` is Date.now() - startTime, and      *)
(* `sleepLeft` the time left on the loop's timer; both advance together.   *)
(***************************************************************************)
EXTENDS Integers, Sequences, FiniteSets

\* ------------------------------------------------------------------ bounds
MaxCalls == 2        \* watch/track calls made in one behaviour
MaxTime == 3         \* the largest deadline tried
MaxRetriesOpt == 2   \* largest maxRetries option tried

\* --------------------------------------------------------------- constants
Confirmations == 1   \* getTransactionReceipt: let confirmations = 1

TxKeys == {"1-0xa", "1-0xb"}          \* `${chain.id}-${transactionHash}`
RelayIds == {"relay_a", "relay_b"}    \* relayId
NoHandle == 0                         \* Map.get(key) === undefined

ErrTxTimeout == "Transaction monitoring timeout"
ErrTxNotFound == "Transaction not found after maximum retries"
ErrTxCancelled == "Transaction watching was cancelled"
ErrRelayTimeout == "Relay tracking timeout"
ErrRelayCancelled == "Relay tracking was cancelled"
ErrFetch == "fetch failed"            \* error.message of a failed fetch

\* What the eth_getTransactionReceipt request of one read can end in: the
\* fetch rejects, the node answers result: null, or it answers a receipt with
\* status 0x1 / another status.
RpcOutcomes == {"network_error", "no_result", "status_0x1", "status_0x0"}

\* What one eth_getTransactionReceipt read can give the poll loop: no receipt
\* (also every network error, which getTransactionReceipt turns into null), or a
\* receipt with status 0x1 / not 0x1.
ReceiptReads == {"absent", "success", "failure"}

\* Mutant: the error of the fetch is not caught.
getTransactionReceipt_rethrows(o) ==
  CASE o = "network_error" -> "thrown"
    [] o = "no_result" -> "absent"
    [] o = "status_0x1" -> "success"
    [] OTHER -> "failure"

\* getTransactionReceipt: null for a missing result and for every error (the
\* catch returns null), else the receipt with status 0x1 ? success : failure.
getTransactionReceipt(o) ==
  CASE o = "network_error" -> "absent"
    [] o = "no_result" -> "absent"
    [] o = "status_0x1" -> "success"
    [] OTHER -> "failure"
\* RelayStatus['status']
RelayStatuses == {"initiated", "pending", "relaying", "completed", "failed"}

\* WatchTransactionOptions merged over DEFAULT_OPTIONS; RelayWatchOptions merged
\* over DEFAULT_RELAY_OPTIONS.  Every call of one behaviour passes the same
\* options: a loop reads no other loop's options.
Intervals == {1, 2}
Deadlines == {1, MaxTime}
TxOptions ==
  [maxRetries : 0..MaxRetriesOpt, retryInterval : Intervals,
   timeout : Deadlines, confirmationsRequired : {1, 2}]
RelayOptions == [maxWaitTime : Deadlines, pollInterval : Intervals]

\* DEFAULT_OPTIONS and DEFAULT_RELAY_OPTIONS in units of the interval, the
\* retry budget scaled down: maxRetries * retryInterval = timeout as in the
\* source, confirmationsRequired 1.
DefaultOptions ==
  [maxRetries |-> 1, retryInterval |-> 1, timeout |-> 1, confirmationsRequired |-> 1]
DefaultRelayOptions == [maxWaitTime |-> 1, pollInterval |-> 1]

VARIABLES
  service,               \* the service this behaviour exercises: "tx" or "relay"
  opts,                  \* the options of the transaction watches
  ropts,                 \* the options of the relay tracks
  loops,                 \* every poll loop started so far, by loop id
  activeWatchers,        \* TransactionStatusService.activeWatchers: key -> loop id
  activeRelayWatchers,   \* RelayStatusService.activeRelayWatchers: relayId -> loop id
  updates,               \* the onUpdate invocations of the with-callback loops, in order
  env,                   \* what the chains and the bridging API hold (getRelayStatus)
  out,                   \* what the latest getRelayStatus call returned
  bal                    \* the BalanceWatcherService and the balances it reads

vars ==
  <<service, opts, ropts, loops, activeWatchers, activeRelayWatchers, updates, env, out,
    bal>>

\* The variables of the transaction and relay services.
watchVars ==
  <<service, opts, ropts, loops, activeWatchers, activeRelayWatchers, updates, env, out>>

NoResult == [status |-> "none", error |-> "", receipt |-> "none"]

\* A progress value is kept exact, as a fraction: num / den percent.
Pct(n) == [num |-> n, den |-> 1]

\* No transaction is known to any chain.
NoEnv == [src |-> "none"]

\* No BalanceWatcherService has been constructed.
NoService == [key |-> "none"]

\* No result of an earlier getRelayStatus call.
NoPrev == [heuristic |-> FALSE, elapsed |-> 0, status |-> "none", progress |-> Pct(0)]

\* A bridging API answer that carries no record.
NoRecord == [kind |-> "none", status |-> "n/a", progress |-> << >>]

\* One getRelayStatus call.
\*   pc            the await the call is suspended on, "idle" or "returned"
\*   srcAt, dstAt  what the chains held when the call was made
\*   failed        the reads of this call that ended in a network error
\*   srcStatus     what getTransactionStatus returned for the source
\*   api           what the bridging API answered
\*   apiCalls, resolverCalls   calls made to the API / the destination resolver
\*   receipt       whether the fallback obtained the source receipt
\*   elapsed, estimate         elapsedTime and estimatedRelayTime of the fallback
\*   status, progress, error   the RelayStatus returned
\*   prev          the result of the call before this one
NoOut ==
  [pc |-> "idle", srcAt |-> "none", dstAt |-> "none", failed |-> {},
   srcStatus |-> "none", api |-> NoRecord, apiCalls |-> 0, resolverCalls |-> 0,
   receipt |-> FALSE, elapsed |-> 0, estimate |-> 0,
   status |-> "none", progress |-> Pct(0), error |-> "", prev |-> NoPrev]

\* `${chain.id}-${address}-${tokenAddress || 'native'}`
NativeKey == "1-0xabc-native"
TokenKey == "1-0xabc-0xtoken"
BalKeys == {NativeKey, TokenKey}

Undefined == "undefined"
NoEntry == [balance |-> Undefined, age |-> 0]
NoRefresh ==
  [pc |-> "idle", key |-> NativeKey, maxWaitTime |-> 0, elapsed |-> 0, slept |-> 0,
   reads |-> 0, initial |-> Undefined, last |-> Undefined, balance |-> Undefined,
   previous |-> Undefined, error |-> ""]

\* The service before any call.
\*   activeWatchers   key -> the watch registered for it (0: none)
\*   balanceCache     key -> {balance, age = Date.now() - timestamp}
\*   watches          by watch: key, pollInterval, time since the timer was
\*                    set or last fired, whether it was cleared, times it
\*                    fired, external reads of its polls, balance the chain
\*                    held when its latest poll ended
\*   polls            the pollBalance calls suspended on their read
\*   gets             the direct getBalance calls: time since the call (age)
\*                    and from the call before it to this one (gap), reads
\*                    issued, balance returned
\*   refresh          the refreshBalanceAfterTransaction call: time since its
\*                    start, time slept, reads issued, initialBalance, the
\*                    balance its latest read returned, the update returned
\*                    or the error thrown
\*   notes            the onBalanceChange invocations, in order
\*   chain, changes   the balance each chain holds, times one has changed
\*   key, pollInterval, maxWaitTime   the arguments the calls of this
\*                    behaviour pass
NoBal ==
  [key |-> NativeKey, pollInterval |-> 0, maxWaitTime |-> 0,
   activeWatchers |-> [k \in BalKeys |-> 0],
   balanceCache |-> [k \in BalKeys |-> NoEntry],
   watches |-> << >>, polls |-> << >>, gets |-> << >>, refresh |-> NoRefresh,
   notes |-> << >>, chain |-> [k \in BalKeys |-> "0"], changes |-> 0]

\* A poll loop right after its first tick has issued its read.  Its promise is
\* the loop id; `callers` counts the calls that returned this promise.
\*   elapsed   Date.now() - startTime, counted up to the loop's deadline + 1
\*   sleepLeft time left before the loop's setTimeout is due
\*   reads, sleeps, receipts   reads issued, waits started, receipts read
\*   last      what the latest completed read returned (transaction loops)
\*   lastRpc   how the request of that read ended
\*   cancelAsked   cancelWatch or cancelAllWatches was called for the key of a
\*             with-callback loop while it ran (no code keeps this)
NewLoop(kind, key) ==
  [kind |-> kind, key |-> key, pc |-> "reading", retries |-> 0, aborted |-> FALSE,
   elapsed |-> 0, sleepLeft |-> 0, reads |-> 1, sleeps |-> 0, receipts |-> 0,
   last |-> "none", lastRpc |-> "none", result |-> NoResult, callers |-> 1,
   cancelAsked |-> FALSE]

LoopIds == 1..Len(loops)
TxLoops == {l \in LoopIds : loops[l].kind = "tx"}
RelayLoops == {l \in LoopIds : loops[l].kind = "relay"}

RECURSIVE SumCallers(_)
SumCallers(n) == IF n = 0 THEN 0 ELSE loops[n].callers + SumCallers(n - 1)
\* The number of watch/track calls made so far.
NumCalls == SumCallers(Len(loops))

\* Calls that pass options are explored one call at a time, calls with the
\* default options MaxCalls at a time.
CallLimit ==
  IF opts = DefaultOptions /\ ropts = DefaultRelayOptions THEN MaxCalls ELSE 1

\* The two services share no state (RelayStatusService owns a
\* TransactionStatusService of which it calls only the stateless reads), so a
\* behaviour exercises the watches of one of them, under that service's options.

Init ==
  /\ service \in {"tx", "relay"}
  /\ opts \in IF service = "tx" THEN TxOptions ELSE {DefaultOptions}
  /\ ropts \in IF service = "relay" THEN RelayOptions ELSE {DefaultRelayOptions}
  /\ loops = << >>
  /\ activeWatchers = [k \in TxKeys |-> NoHandle]
  /\ activeRelayWatchers = [r \in RelayIds |-> NoHandle]
  /\ updates = << >>
  /\ env = NoEnv
  /\ out = NoOut
  /\ bal = NoService

\* ---------------------------------------------------------- both services

\* Map.delete(key), as the cleanup of a loop of this key does it.
DeleteKey(reg, key) == [reg EXCEPT ![key] = NoHandle]

\* Mutant: the lookup misses every key (a lookup under the wrong key).
HasHandle_missed(reg, key) == FALSE

\* if (map.has(key)) return map.get(key).promise
HasHandle(reg, key) == reg[key] # NoHandle

\* watcher.abort.abort() for every handle of the registry
AbortAll(reg) ==
  [l \in LoopIds |->
     IF \E k \in DOMAIN reg : reg[k] = l
       THEN [loops[l] EXCEPT !.aborted = TRUE] ELSE loops[l]]

\* await new Promise(resolve => setTimeout(resolve, interval))
Sleep(ls, l, interval) ==
  [ls EXCEPT ![l].pc = "sleeping", ![l].sleeps = @ + 1, ![l].sleepLeft = interval]

\* The loop's promise settles with `res`.
Settle(ls, l, res) == [ls EXCEPT ![l].pc = "done", ![l].result = res]

\* The loop issues its external read.
IssueRead(l) == [loops EXCEPT ![l].pc = "reading", ![l].reads = @ + 1]

\* const receipt = await this.getTransactionReceipt(...) has returned r (or
\* thrown), the request having ended in o.  How the request ended is history
\* that no code reads; it is kept for the behaviours of one call.
GotReceipt(l, o, r) ==
  [loops EXCEPT ![l].last = r, ![l].lastRpc = IF CallLimit = 1 THEN o ELSE "none",
                ![l].receipts = IF r \in {"success", "failure"} THEN @ + 1 ELSE @]

\* ----------------------------------------------- TransactionStatusService

\* Mutant: no cleanup is registered on the promise.
TxCleanup_none(l) == activeWatchers

\* promise.finally(() => { this.activeWatchers.delete(watcherKey) }): the first
\* reaction registered on the loop's promise; it runs as the promise settles,
\* before any other code can act on the registry.
TxCleanup(l) == DeleteKey(activeWatchers, loops[l].key)

TxSettle(ls, l, res) ==
  /\ loops' = Settle(ls, l, res)
  /\ activeWatchers' = TxCleanup(l)

\* Mutant: one retry too many.
RetriesLeft_offByOne(l) == loops[l].retries <= opts.maxRetries

\* retries < options.maxRetries
RetriesLeft(l) == loops[l].retries < opts.maxRetries

\* Mutant: the confirmation count is not looked at.
EnoughConfirmations_ignored == TRUE

\* receipt.confirmations >= options.confirmationsRequired
EnoughConfirmations == Confirmations >= opts.confirmationsRequired

\* Mutant: the deadline is not checked.
TxTimedOut_never(l) == FALSE

\* Date.now() - startTime > options.timeout
TxTimedOut(l) == loops[l].elapsed > opts.timeout

\* Mutant: the cancellation signal is not looked at.
TxAbortSeen_never(l) == FALSE

\* if (signal.aborted) throw ...   at the start of poll()
TxAbortSeen(l) == loops[l].aborted

\* Mutant: the wait is started without counting the retry.
TxRetry_uncounted(ls, l) ==
  /\ loops' = Sleep(ls, l, opts.retryInterval)
  /\ UNCHANGED activeWatchers

\* retries++; await setTimeout(retryInterval); return poll()
TxRetry(ls, l) ==
  /\ loops' = [Sleep(ls, l, opts.retryInterval) EXCEPT ![l].retries = @ + 1]
  /\ UNCHANGED activeWatchers

\* watchTransaction: look the key up; attach to the registered promise, or
\* start _watchTransactionInternal (whose first tick runs synchronously up to
\* its read), register the handle and the cleanup.  No await in between.
watchTransaction(k) ==
  /\ service = "tx"
  /\ NumCalls < CallLimit
  /\ IF HasHandle(activeWatchers, k)
       THEN /\ loops' = [loops EXCEPT ![activeWatchers[k]].callers = @ + 1]
            /\ UNCHANGED activeWatchers
       ELSE /\ loops' = Append(loops, NewLoop("tx", k))
            /\ activeWatchers' = [activeWatchers EXCEPT ![k] = Len(loops) + 1]
  /\ UNCHANGED <<env, out, updates, bal, service, opts, ropts, activeRelayWatchers>>

\* Mutant: the deadline is tested before the cancellation signal.
TxTick_deadlineFirst(l) ==
  /\ l \in TxLoops
  /\ loops[l].pc = "sleeping"
  /\ loops[l].sleepLeft = 0
  /\ IF TxTimedOut(l)
       THEN TxSettle(loops, l, [status |-> "failed", error |-> ErrTxTimeout, receipt |-> "none"])
       ELSE IF TxAbortSeen(l)
         THEN TxSettle(loops, l, [status |-> "rejected", error |-> ErrTxCancelled, receipt |-> "none"])
         ELSE /\ loops' = IssueRead(l)
              /\ UNCHANGED activeWatchers
  /\ UNCHANGED <<env, out, updates, bal, service, opts, ropts, activeRelayWatchers>>

\* _watchTransactionInternal.poll, from its start to its read: the timer of
\* the previous tick is due.
TxTick(l) ==
  /\ l \in TxLoops
  /\ loops[l].pc = "sleeping"
  /\ loops[l].sleepLeft = 0
  /\ IF TxAbortSeen(l)
       THEN TxSettle(loops, l, [status |-> "rejected", error |-> ErrTxCancelled, receipt |-> "none"])
       ELSE IF TxTimedOut(l)
         THEN TxSettle(loops, l, [status |-> "failed", error |-> ErrTxTimeout, receipt |-> "none"])
         ELSE /\ loops' = IssueRead(l)
              /\ UNCHANGED activeWatchers
  /\ UNCHANGED <<env, out, updates, bal, service, opts, ropts, activeRelayWatchers>>

\* Mutant: every receipt counts as a success.
ReceiptStatus_allConfirmed(r) == "confirmed"

\* receipt.status === 'success' ? 'confirmed' : 'failed'
ReceiptStatus(r) == IF r = "success" THEN "confirmed" ELSE "failed"

\* The catch block of _watchTransactionInternal.poll: an error thrown by the
\* read.  (getTransactionReceipt catches its own errors, so no read of the
\* service gets here.)
TxCatch(ls, l) ==
  IF TxAbortSeen(l)
    THEN TxSettle(ls, l, [status |-> "rejected", error |-> ErrTxCancelled, receipt |-> "none"])
    ELSE IF loops[l].retries + 1 >= opts.maxRetries
      THEN TxSettle([ls EXCEPT ![l].retries = @ + 1], l,
                    [status |-> "failed", error |-> ErrFetch, receipt |-> "none"])
      ELSE TxRetry(ls, l)

\* _watchTransactionInternal.poll, from the end of the request of
\* getTransactionReceipt (outcome o) to the next suspension.  A receipt short
\* of confirmations with no retry left falls through to the branch of the
\* missing receipt.
TxRead(l, o) ==
  /\ l \in TxLoops
  /\ loops[l].pc = "reading"
  /\ LET r == getTransactionReceipt(o)
         ls == GotReceipt(l, o, r)
     IN  IF r = "thrown"
           THEN TxCatch(ls, l)
           ELSE IF r # "absent" /\ EnoughConfirmations
             THEN TxSettle(ls, l, [status |-> ReceiptStatus(r), error |-> "", receipt |-> r])
             ELSE IF RetriesLeft(l)
               THEN TxRetry(ls, l)
               ELSE TxSettle(ls, l,
                             [status |-> "failed", error |-> ErrTxNotFound, receipt |-> "none"])
  /\ UNCHANGED <<env, out, updates, bal, service, opts, ropts, activeRelayWatchers>>

\* The with-callback loops of the keys `keys` that have not ended, marked as
\* asked to stop.  They have no handle in the registry, so a cancel call
\* finds nothing of theirs to abort.
Asked(ls, keys) ==
  [l \in 1..Len(ls) |->
     IF ls[l].kind = "txcb" /\ ls[l].key \in keys /\ ls[l].pc # "done"
       THEN [ls[l] EXCEPT !.cancelAsked = TRUE] ELSE ls[l]]

\* cancelWatch
cancelWatch(k) ==
  /\ service \in {"tx", "txcb"}
  /\ IF HasHandle(activeWatchers, k)
       THEN /\ loops' = Asked([loops EXCEPT ![activeWatchers[k]].aborted = TRUE], {k})
            /\ activeWatchers' = DeleteKey(activeWatchers, k)
       ELSE /\ loops' = Asked(loops, {k})
            /\ UNCHANGED activeWatchers
  /\ UNCHANGED <<env, out, updates, bal, service, opts, ropts, activeRelayWatchers>>

\* cancelAllWatches
cancelAllWatches ==
  /\ service \in {"tx", "txcb"}
  /\ loops' = Asked(AbortAll(activeWatchers), TxKeys)
  /\ activeWatchers' = [k \in TxKeys |-> NoHandle]
  /\ UNCHANGED <<env, out, updates, bal, service, opts, ropts, activeRelayWatchers>>

\* ------------------------------------------------------ RelayStatusService

\* promise.finally(() => { this.activeRelayWatchers.delete(relayId) })
RelayCleanup(l) == DeleteKey(activeRelayWatchers, loops[l].key)

RelaySettle(l, res) ==
  /\ loops' = Settle(loops, l, res)
  /\ activeRelayWatchers' = RelayCleanup(l)

\* Mutant: the deadline of a track is not checked.
RelayTimedOut_never(l) == FALSE

\* Date.now() - startTime > options.maxWaitTime
RelayTimedOut(l) == loops[l].elapsed > ropts.maxWaitTime

\* if (signal.aborted) throw ...   at the start of poll()
RelayAbortSeen(l) == loops[l].aborted

\* relayStatus.status === 'completed' || relayStatus.status === 'failed'
RelayTerminal(s) == s \in {"completed", "failed"}

\* trackRelay
trackRelay(r) ==
  /\ service = "relay"
  /\ NumCalls < CallLimit
  /\ IF HasHandle(activeRelayWatchers, r)
       THEN /\ loops' = [loops EXCEPT ![activeRelayWatchers[r]].callers = @ + 1]
            /\ UNCHANGED activeRelayWatchers
       ELSE /\ loops' = Append(loops, NewLoop("relay", r))
            /\ activeRelayWatchers' = [activeRelayWatchers EXCEPT ![r] = Len(loops) + 1]
  /\ UNCHANGED <<env, out, updates, bal, service, opts, ropts, activeWatchers>>

\* _trackRelayInternal.poll, from its start to the call of getRelayStatus.
RelayTick(l) ==
  /\ l \in RelayLoops
  /\ loops[l].pc = "sleeping"
  /\ loops[l].sleepLeft = 0
  /\ IF RelayAbortSeen(l)
       THEN RelaySettle(l, [status |-> "rejected", error |-> ErrRelayCancelled, receipt |-> "none"])
       ELSE IF RelayTimedOut(l)
         THEN RelaySettle(l, [status |-> "failed", error |-> ErrRelayTimeout, receipt |-> "none"])
         ELSE /\ loops' = IssueRead(l)
              /\ UNCHANGED activeRelayWatchers
  /\ UNCHANGED <<env, out, updates, bal, service, opts, ropts, activeWatchers>>

\* _trackRelayInternal.poll, from the return of getRelayStatus (status s) to
\* the next suspension.
RelayRead(l, s) ==
  /\ l \in RelayLoops
  /\ loops[l].pc = "reading"
  /\ IF RelayTerminal(s)
       THEN RelaySettle(l, [status |-> s, error |-> "", receipt |-> "none"])
       ELSE /\ loops' = Sleep(loops, l, ropts.pollInterval)
            /\ UNCHANGED activeRelayWatchers
  /\ UNCHANGED <<env, out, updates, bal, service, opts, ropts, activeWatchers>>

\* cancelRelayTracking
cancelRelayTracking(r) ==
  /\ service = "relay"
  /\ IF HasHandle(activeRelayWatchers, r)
       THEN /\ loops' = [loops EXCEPT ![activeRelayWatchers[r]].aborted = TRUE]
            /\ activeRelayWatchers' = DeleteKey(activeRelayWatchers, r)
       ELSE UNCHANGED <<loops, activeRelayWatchers>>
  /\ UNCHANGED <<env, out, updates, bal, service, opts, ropts, activeWatchers>>

\* cancelAllRelayTracking
cancelAllRelayTracking ==
  /\ service = "relay"
  /\ loops' = AbortAll(activeRelayWatchers)
  /\ activeRelayWatchers' = [r \in RelayIds |-> NoHandle]
  /\ UNCHANGED <<env, out, updates, bal, service, opts, ropts, activeWatchers>>

\* ------------------------------------------------------------------- time

\* options.timeout / options.maxWaitTime of loop l
Deadline(l) ==
  IF loops[l].kind \in {"tx", "txcb"} THEN opts.timeout ELSE ropts.maxWaitTime

\* One unit of time passes for every loop that has not ended.  Past its
\* deadline a loop's elapsed time is no longer counted: the code only asks
\* whether it exceeds the deadline.
Advanced ==
  [l \in LoopIds |->
     IF loops[l].pc = "done" THEN loops[l]
     ELSE [loops[l] EXCEPT
             !.elapsed = IF @ <= Deadline(l) THEN @ + 1 ELSE @,
             !.sleepLeft = IF @ > 0 THEN @ - 1 ELSE 0]]

Advance ==
  /\ loops' = Advanced
  /\ UNCHANGED <<env, out, updates, bal, service, opts, ropts, activeWatchers, activeRelayWatchers>>

Next ==
  \/ \E k \in TxKeys : watchTransaction(k)
  \/ \E l \in LoopIds : TxTick(l)
  \/ \E l \in LoopIds, o \in RpcOutcomes : TxRead(l, o)
  \/ \E k \in TxKeys : cancelWatch(k)
  \/ cancelAllWatches
  \/ \E r \in RelayIds : trackRelay(r)
  \/ \E l \in LoopIds : RelayTick(l)
  \/ \E l \in LoopIds, s \in RelayStatuses : RelayRead(l, s)
  \/ \E r \in RelayIds : cancelRelayTracking(r)
  \/ cancelAllRelayTracking
  \/ Advance

Spec == Init /\ [][Next]_vars

\* The scheduling of the loops: time passes, a timer that is due fires (the
\* event loop runs its callback), and a read that was issued returns, with a
\* value or an error.
Fairness ==
  /\ WF_vars(Advance)
  /\ \A l \in 1..MaxCalls :
       /\ WF_vars(TxTick(l))
       /\ WF_vars(\E o \in RpcOutcomes : TxRead(l, o))
       /\ WF_vars(RelayTick(l))
       /\ WF_vars(\E s \in RelayStatuses : RelayRead(l, s))

LiveSpec == Spec /\ Fairness

\* ------------------------------------------- watchTransactionWithCallback
\* The loop of watchTransactionWithCallback has no abort signal and no entry
\* in activeWatchers.  Its loops are the loops of kind "txcb"; every onUpdate
\* invocation is appended to `updates`.  The callback is taken to return
\* normally.

CbLoops == {l \in LoopIds : loops[l].kind = "txcb"}

\* The updates delivered to the callback of loop l, in order.
UpdatesOf(l) == SelectSeq(updates, LAMBDA u : u.loop = l)

\* Mutant: the callback is not invoked.
Deliver_dropped(l, u) == updates

\* onUpdate(update)
Deliver(l, u) ==
  Append(updates, [loop |-> l, status |-> u.status, error |-> u.error, receipt |-> u.receipt])

\* onUpdate(update); return update
CbFinish(ls, l, u) ==
  /\ updates' = Deliver(l, u)
  /\ loops' = Settle(ls, l, u)

\* onUpdate({status: 'pending'}); retries++; await setTimeout(retryInterval)
CbRetry(ls, l) ==
  /\ updates' = Deliver(l, [status |-> "pending", error |-> "", receipt |-> "none"])
  /\ loops' = [Sleep(ls, l, opts.retryInterval) EXCEPT ![l].retries = @ + 1]

\* The catch block of watchTransactionWithCallback.poll: an error thrown by
\* the read.
CbCatch(ls, l) ==
  IF loops[l].retries + 1 >= opts.maxRetries
    THEN CbFinish([ls EXCEPT ![l].retries = @ + 1], l,
                  [status |-> "failed", error |-> ErrFetch, receipt |-> "none"])
    ELSE /\ loops' = [Sleep(ls, l, opts.retryInterval) EXCEPT ![l].retries = @ + 1]
         /\ UNCHANGED updates

\* watchTransactionWithCallback: the first tick runs synchronously up to its
\* read (no time has passed, so the deadline test fails).
watchTransactionWithCallback(k) ==
  /\ service = "txcb"
  /\ NumCalls < CallLimit
  /\ loops' = Append(loops, NewLoop("txcb", k))
  /\ UNCHANGED <<env, out, updates, bal, service, opts, ropts, activeWatchers, activeRelayWatchers>>

\* watchTransactionWithCallback.poll, from its start to its read.
CbTick(l) ==
  /\ l \in CbLoops
  /\ loops[l].pc = "sleeping"
  /\ loops[l].sleepLeft = 0
  /\ IF TxTimedOut(l)
       THEN CbFinish(loops, l, [status |-> "failed", error |-> ErrTxTimeout, receipt |-> "none"])
       ELSE /\ loops' = IssueRead(l)
            /\ UNCHANGED updates
  /\ UNCHANGED <<env, out, bal, service, opts, ropts, activeWatchers, activeRelayWatchers>>

\* watchTransactionWithCallback.poll, from the end of the request of
\* getTransactionReceipt (outcome o) to the next suspension.  Any receipt ends
\* the loop: confirmationsRequired is not looked at.
CbRead(l, o) ==
  /\ l \in CbLoops
  /\ loops[l].pc = "reading"
  /\ LET r == getTransactionReceipt(o)
         ls == GotReceipt(l, o, r)
     IN  IF r = "thrown"
           THEN CbCatch(ls, l)
           ELSE IF r # "absent"
             THEN CbFinish(ls, l, [status |-> ReceiptStatus(r), error |-> "", receipt |-> r])
             ELSE IF RetriesLeft(l)
               THEN CbRetry(ls, l)
               ELSE CbFinish(ls, l,
                             [status |-> "failed", error |-> ErrTxNotFound, receipt |-> "none"])
  /\ UNCHANGED <<env, out, bal, service, opts, ropts, activeWatchers, activeRelayWatchers>>

CbInit ==
  /\ service = "txcb"
  /\ opts \in TxOptions
  /\ ropts = DefaultRelayOptions
  /\ loops = << >>
  /\ activeWatchers = [k \in TxKeys |-> NoHandle]
  /\ activeRelayWatchers = [r \in RelayIds |-> NoHandle]
  /\ updates = << >>
  /\ env = NoEnv
  /\ out = NoOut
  /\ bal = NoService

CbNext ==
  \/ \E k \in TxKeys : watchTransactionWithCallback(k)
  \/ \E l \in LoopIds : CbTick(l)
  \/ \E l \in LoopIds, o \in RpcOutcomes : CbRead(l, o)
  \/ Advance

CbSpec == CbInit /\ [][CbNext]_vars

\* The with-callback loops beside calls of cancelWatch and cancelAllWatches.
CbCancelNext ==
  \/ \E k \in TxKeys : watchTransactionWithCallback(k)
  \/ \E l \in LoopIds : CbTick(l)
  \/ \E l \in LoopIds, o \in RpcOutcomes : CbRead(l, o)
  \/ \E k \in TxKeys : cancelWatch(k)
  \/ cancelAllWatches
  \/ Advance

CbCancelSpec == CbInit /\ [][CbCancelNext]_vars

\* The loops that count retries: the transaction watches, or the
\* with-callback loops.
RetryInit ==
  \/ Init /\ service = "tx"
  \/ CbInit

RetryNext ==
  \/ \E k \in TxKeys : watchTransaction(k)
  \/ \E l \in LoopIds : TxTick(l)
  \/ \E l \in LoopIds, o \in RpcOutcomes : TxRead(l, o)
  \/ \E k \in TxKeys : cancelWatch(k)
  \/ cancelAllWatches
  \/ \E k \in TxKeys : watchTransactionWithCallback(k)
  \/ \E l \in LoopIds : CbTick(l)
  \/ \E l \in LoopIds, o \in RpcOutcomes : CbRead(l, o)
  \/ Advance

RetrySpec == RetryInit /\ [][RetryNext]_vars

\* --------------------------------------------------------- getRelayStatus
\* One RelayStatusService answers getRelayStatus calls for one relay, one call
\* after the other, while the source transaction is broadcast and mined, time
\* passes and the destination transaction appears.  A call is suspended on
\* each of its external reads in turn.

Granule == 30000        \* milliseconds in one step of time
MaxReadErrors == 1      \* chain reads of one call that may end in a network error

BaseRelayTime == 120000      \* let baseTime = 120000
SlowChainExtra == 60000      \* baseTime += 60000
ApeChainDiscount == 30000    \* baseTime -= 30000
MinRelayTime == 60000        \* Math.max(60000, baseTime)
ApeChainId == 33139          \* destinationChainId === 33139
SlowChains == {1, 137, 10}   \* const slowChains = [1, 137, 10]

\* The chains tried: a slow source chain and another one, ApeChain as the
\* destination and another one.
SrcChains == {1, 8453}
DstChains == {ApeChainId, 8453}

ErrSourceNotFound == "Source transaction not found"
ErrSourceFailed == "Source transaction failed"

\* getEstimatedRelayTime
getEstimatedRelayTime(sourceChainId, destinationChainId) ==
  LET slow == IF sourceChainId \in SlowChains THEN SlowChainExtra ELSE 0
      fast == IF destinationChainId = ApeChainId THEN ApeChainDiscount ELSE 0
      baseTime == BaseRelayTime + slow - fast
  IN  IF baseTime > MinRelayTime THEN baseTime ELSE MinRelayTime

\* Order and equality of progress values (fractions with positive
\* denominators; equal denominators are not multiplied out).
PctLeq(p, q) == IF p.den = q.den THEN p.num <= q.num ELSE p.num * q.den <= q.num * p.den
PctLess(p, q) == IF p.den = q.den THEN p.num < q.num ELSE p.num * q.den < q.num * p.den
PctEq(p, q) == IF p.den = q.den THEN p.num = q.num ELSE p.num * q.den = q.num * p.den

\* Mutant: the elapsed time is not looked at.
HeuristicProgress_flat(elapsedTime, estimatedRelayTime) == Pct(50)

\* Math.min(95, 50 + (elapsedTime / estimatedRelayTime) * 45), as a fraction
\* over estimatedRelayTime.  (The source computes it in double precision, which
\* keeps the order of these values: they lie at least 45/180000 apart.)
HeuristicProgress(elapsedTime, estimatedRelayTime) ==
  LET num == 50 * estimatedRelayTime + 45 * elapsedTime
  IN  IF num > 95 * estimatedRelayTime
        THEN Pct(95)
        ELSE [num |-> num, den |-> estimatedRelayTime]

\* data.status as the bridging API may send it; Missing is a record without
\* the field.
Missing == "<missing>"
VendorStates ==
  {"pending", "Processing", "BRIDGING", "completed", "Success", "failed", "ERROR",
   "refunded", Missing}

\* String.prototype.toLowerCase on the vendor states tried.
toLowerCase(v) ==
  CASE v = "Processing" -> "processing"
    [] v = "BRIDGING" -> "bridging"
    [] v = "Success" -> "success"
    [] v = "ERROR" -> "error"
    [] OTHER -> v

\* Mutant: the vendor state is compared as sent.
mapApiStatusToRelayStatus_caseSensitive(apiStatus) ==
  CASE apiStatus = "pending" -> "pending"
    [] apiStatus \in {"processing", "bridging"} -> "relaying"
    [] apiStatus \in {"completed", "success"} -> "completed"
    [] apiStatus \in {"failed", "error"} -> "failed"
    [] OTHER -> "initiated"

\* mapApiStatusToRelayStatus: switch (apiStatus?.toLowerCase())
mapApiStatusToRelayStatus(apiStatus) ==
  LET v == IF apiStatus = Missing THEN Missing ELSE toLowerCase(apiStatus)
  IN  CASE v = "pending" -> "pending"
        [] v \in {"processing", "bridging"} -> "relaying"
        [] v \in {"completed", "success"} -> "completed"
        [] v \in {"failed", "error"} -> "failed"
        [] OTHER -> "initiated"

\* data.progress as the API may send it: << >> is a record without the field.
ApiProgress == {<< >>, <<60>>, <<150>>}

\* What one request to the bridging API can end in: the fetch (or the parsing
\* of the body) throws, the response is not OK, or it carries a record.
ApiAnswers ==
  {[kind |-> k, status |-> "n/a", progress |-> << >>] : k \in {"throws", "not_ok"}}
  \cup [kind : {"ok"}, status : VendorStates, progress : ApiProgress]

\* Mutant: an API that cannot be reached is reported as a failed relay.
getRelayStatusFromAPI_failsHard(a) ==
  IF a.kind = "ok"
    THEN [found |-> TRUE, status |-> mapApiStatusToRelayStatus(a.status),
          progress |-> Pct(IF a.progress = << >> THEN 0 ELSE a.progress[1]), error |-> ""]
    ELSE [found |-> TRUE, status |-> "failed", progress |-> Pct(0), error |-> ErrFetch]

\* getRelayStatusFromAPI: null unless the response is OK (its catch returns
\* null), else the record with status mapped and progress data.progress || 0.
getRelayStatusFromAPI(a) ==
  IF a.kind = "ok"
    THEN [found |-> TRUE, status |-> mapApiStatusToRelayStatus(a.status),
          progress |-> Pct(IF a.progress = << >> THEN 0 ELSE a.progress[1]), error |-> ""]
    ELSE [found |-> FALSE, status |-> "none", progress |-> Pct(0), error |-> ""]

\* How an eth_getTransactionReceipt request ends for a transaction the chain
\* holds as t, the request failing or not.
RpcReceipt(t, fails) ==
  IF fails THEN "network_error"
  ELSE CASE t = "success" -> "status_0x1"
         [] t = "failure" -> "status_0x0"
         [] OTHER -> "no_result"

\* getTransactionStatus, the mempool lookup: eth_getTransactionByHash has a
\* result for a transaction the node knows, mined or not; an error of the
\* request is caught and leaves no result.
MempoolHas(t, fails) == ~fails /\ t \in {"mempool", "success", "failure"}

\* Mutant: a pending source is reported at the progress of a confirmed one.
SourceResult_pending50(sourceStatus) ==
  CASE sourceStatus = "not_found" ->
         [status |-> "failed", progress |-> Pct(0), error |-> ErrSourceNotFound]
    [] sourceStatus = "failed" ->
         [status |-> "failed", progress |-> Pct(0), error |-> ErrSourceFailed]
    [] OTHER -> [status |-> "pending", progress |-> Pct(50), error |-> ""]

\* getRelayStatus, the results for a source that is not confirmed.
SourceResult(sourceStatus) ==
  CASE sourceStatus = "not_found" ->
         [status |-> "failed", progress |-> Pct(0), error |-> ErrSourceNotFound]
    [] sourceStatus = "failed" ->
         [status |-> "failed", progress |-> Pct(0), error |-> ErrSourceFailed]
    [] OTHER -> [status |-> "pending", progress |-> Pct(25), error |-> ""]

\* const elapsedTime = Date.now() - (sourceReceipt.timestamp || Date.now()).
\* The reader of the service stamps a receipt with the time of the read
\* ("atRead"); a reader that reports the time of the block ("atBlock") gives
\* the time since the source was mined.
ElapsedTime == IF env.stamped = "atRead" THEN 0 ELSE env.age * Granule

\* No getRelayStatus call is in flight, and none has returned to a track that
\* has not yet resumed (it resumes at once, in a microtask).
NoCall ==
  /\ out.pc \in {"idle", "returned"}
  /\ \A l \in LoopIds : loops[l].kind = "relaycb" => loops[l].pc # "reading"

\* What a later call keeps of the call that returned before it.
PrevOf(o) ==
  IF o.pc = "returned"
    THEN [heuristic |-> o.srcStatus = "confirmed" /\ o.api.kind # "ok" /\ o.receipt,
          elapsed |-> o.elapsed, status |-> o.status, progress |-> o.progress]
    ELSE NoPrev

\* A read of the call in state o ends, in a network error or not.
ReadDone(o, name, fails) ==
  [o EXCEPT !.failed = IF fails THEN @ \cup {name} ELSE @]

\* A read may fail while the call has had fewer than MaxReadErrors failures.
MayFail(fails) == fails => Cardinality(out.failed) < MaxReadErrors

\* return { ..., status, progress, error }
Return(o, res) ==
  [o EXCEPT !.pc = "returned", !.status = res.status, !.progress = res.progress,
            !.error = res.error]

\* getRelayStatus, from the call to its first read (getTransactionStatus of
\* the source, which starts with the receipt).
getRelayStatus ==
  /\ service = "status"
  /\ NoCall
  /\ out' = [NoOut EXCEPT !.pc = "srcReceipt", !.srcAt = env.src, !.dstAt = env.dst,
                          !.prev = PrevOf(out)]
  /\ UNCHANGED <<env, updates, bal, service, opts, ropts, loops, activeWatchers, activeRelayWatchers>>

\* getTransactionStatus of the source, after its receipt read: a receipt
\* settles the status (failed returns at once, confirmed goes on to the API),
\* no receipt leads to the mempool lookup.  An error thrown by the reader is
\* caught by getTransactionStatus, which returns not_found.
SrcReceiptRead(fails) ==
  /\ out.pc = "srcReceipt"
  /\ MayFail(fails)
  /\ LET r == getTransactionReceipt(RpcReceipt(env.src, fails))
         o == ReadDone(out, "srcReceipt", fails)
     IN  out' =
           IF r = "thrown"
             THEN Return([o EXCEPT !.srcStatus = "not_found"], SourceResult("not_found"))
           ELSE IF r = "absent"
             THEN [o EXCEPT !.pc = "srcMempool"]
           ELSE IF ReceiptStatus(r) = "failed"
             THEN Return([o EXCEPT !.srcStatus = "failed"], SourceResult("failed"))
             ELSE [o EXCEPT !.srcStatus = "confirmed", !.pc = "api"]
  /\ UNCHANGED <<env, updates, bal, service, opts, ropts, loops, activeWatchers, activeRelayWatchers>>

\* getTransactionStatus of the source, after its mempool lookup: pending or
\* not_found, and getRelayStatus returns at once.
SrcMempoolRead(fails) ==
  /\ out.pc = "srcMempool"
  /\ MayFail(fails)
  /\ LET sourceStatus == IF MempoolHas(env.src, fails) THEN "pending" ELSE "not_found"
         o == ReadDone(out, "srcMempool", fails)
     IN  out' = Return([o EXCEPT !.srcStatus = sourceStatus], SourceResult(sourceStatus))
  /\ UNCHANGED <<env, updates, bal, service, opts, ropts, loops, activeWatchers, activeRelayWatchers>>

\* getRelayStatus, after getRelayStatusFromAPI: a record is returned as it
\* is, otherwise the fallback reads the source receipt.
ApiRead(a) ==
  /\ out.pc = "api"
  /\ LET rec == getRelayStatusFromAPI(a)
         o == [out EXCEPT !.api = a, !.apiCalls = @ + 1]
     IN  out' = IF rec.found THEN Return(o, rec) ELSE [o EXCEPT !.pc = "receipt"]
  /\ UNCHANGED <<env, updates, bal, service, opts, ropts, loops, activeWatchers, activeRelayWatchers>>

\* getRelayStatus, the fallback after its receipt read: no receipt gives
\* initiated; a receipt gives relaying with the interpolated progress, or,
\* past the estimate, leads to the destination lookup.  An error thrown by
\* the reader ends in the catch of getRelayStatus.
FallbackReceiptRead(fails) ==
  /\ out.pc = "receipt"
  /\ MayFail(fails)
  /\ LET r == getTransactionReceipt(RpcReceipt(env.src, fails))
         o == ReadDone(out, "receipt", fails)
         estimatedRelayTime == getEstimatedRelayTime(env.srcChain, env.dstChain)
         seen == [o EXCEPT !.receipt = TRUE, !.elapsed = ElapsedTime,
                           !.estimate = estimatedRelayTime]
     IN  out' =
           IF r = "thrown"
             THEN Return(o, [status |-> "failed", progress |-> Pct(0), error |-> ErrFetch])
           ELSE IF r = "absent"
             THEN Return(o, [status |-> "initiated", progress |-> Pct(10), error |-> ""])
           ELSE IF ElapsedTime > estimatedRelayTime
             THEN [seen EXCEPT !.pc = "resolver"]
             ELSE Return(seen, [status |-> "relaying",
                                progress |-> HeuristicProgress(ElapsedTime, estimatedRelayTime),
                                error |-> ""])
  /\ UNCHANGED <<env, updates, bal, service, opts, ropts, loops, activeWatchers, activeRelayWatchers>>

\* getRelayStatus, after findDestinationTransaction: without a destination
\* hash the result is relaying at progress 50.
Resolve ==
  /\ out.pc = "resolver"
  /\ LET o == [out EXCEPT !.resolverCalls = @ + 1]
     IN  out' = IF env.dst = "none"
                  THEN Return(o, [status |-> "relaying", progress |-> Pct(50), error |-> ""])
                  ELSE [o EXCEPT !.pc = "dstReceipt"]
  /\ UNCHANGED <<env, updates, bal, service, opts, ropts, loops, activeWatchers, activeRelayWatchers>>

\* getTransactionStatus of the destination, after its receipt read, and the
\* result getRelayStatus derives from a settled destination.
DstReceiptRead(fails) ==
  /\ out.pc = "dstReceipt"
  /\ MayFail(fails)
  /\ LET r == getTransactionReceipt(RpcReceipt(env.dst, fails))
         o == ReadDone(out, "dstReceipt", fails)
     IN  out' =
           IF r = "thrown"
             THEN Return(o, [status |-> "relaying", progress |-> Pct(50), error |-> ""])
           ELSE IF r = "absent"
             THEN [o EXCEPT !.pc = "dstMempool"]
           ELSE IF ReceiptStatus(r) = "confirmed"
             THEN Return(o, [status |-> "completed", progress |-> Pct(100), error |-> ""])
             ELSE Return(o, [status |-> "failed", progress |-> Pct(75), error |-> ""])
  /\ UNCHANGED <<env, updates, bal, service, opts, ropts, loops, activeWatchers, activeRelayWatchers>>

\* getTransactionStatus of the destination, after its mempool lookup: pending
\* or not_found, either of which leaves the result relaying at progress 50.
DstMempoolRead(fails) ==
  /\ out.pc = "dstMempool"
  /\ MayFail(fails)
  /\ out' = Return(ReadDone(out, "dstMempool", fails),
                   [status |-> "relaying", progress |-> Pct(50), error |-> ""])
  /\ UNCHANGED <<env, updates, bal, service, opts, ropts, loops, activeWatchers, activeRelayWatchers>>

\* The chains.  They are taken not to change while a call is in flight (a
\* call lasts a few round trips).

\* The source transaction reaches the mempool.
Broadcast ==
  /\ NoCall /\ env.src = "unknown"
  /\ env' = [env EXCEPT !.src = "mempool"]
  /\ UNCHANGED <<out, updates, bal, service, opts, ropts, loops, activeWatchers, activeRelayWatchers>>

\* The source transaction is mined, with execution status t.
MineSource(t) ==
  /\ NoCall /\ env.src = "mempool"
  /\ env' = [env EXCEPT !.src = t]
  /\ UNCHANGED <<out, updates, bal, service, opts, ropts, loops, activeWatchers, activeRelayWatchers>>

\* One step of time passes since the source was confirmed.  Time is counted
\* where the code can see it: for receipts stamped with the time of the block,
\* up to the first step past the estimated relay time.
Tick ==
  /\ NoCall /\ env.src = "success" /\ env.stamped = "atBlock"
  /\ ElapsedTime <= getEstimatedRelayTime(env.srcChain, env.dstChain)
  /\ env' = [env EXCEPT !.age = @ + 1]
  /\ UNCHANGED <<out, updates, bal, service, opts, ropts, loops, activeWatchers, activeRelayWatchers>>

\* The bridge sends the destination transaction, and the resolver finds it.
RelayDestination ==
  /\ NoCall /\ env.src = "success" /\ env.dst = "none"
  /\ env' = [env EXCEPT !.dst = "mempool"]
  /\ UNCHANGED <<out, updates, bal, service, opts, ropts, loops, activeWatchers, activeRelayWatchers>>

\* The destination transaction is mined, with execution status t.
MineDestination(t) ==
  /\ NoCall /\ env.dst = "mempool"
  /\ env' = [env EXCEPT !.dst = t]
  /\ UNCHANGED <<out, updates, bal, service, opts, ropts, loops, activeWatchers, activeRelayWatchers>>

StatusInit ==
  /\ service = "status"
  /\ opts = DefaultOptions
  /\ ropts = DefaultRelayOptions
  /\ loops = << >>
  /\ activeWatchers = [k \in TxKeys |-> NoHandle]
  /\ activeRelayWatchers = [r \in RelayIds |-> NoHandle]
  /\ updates = << >>
  /\ env \in [src : {"unknown"}, age : {0}, stamped : {"atRead", "atBlock"},
              srcChain : SrcChains, dstChain : DstChains, dst : {"none"}]
  /\ out = NoOut
  /\ bal = NoService

StatusNext ==
  \/ getRelayStatus
  \/ \E f \in BOOLEAN : SrcReceiptRead(f)
  \/ \E f \in BOOLEAN : SrcMempoolRead(f)
  \/ \E a \in ApiAnswers : ApiRead(a)
  \/ \E f \in BOOLEAN : FallbackReceiptRead(f)
  \/ Resolve
  \/ \E f \in BOOLEAN : DstReceiptRead(f)
  \/ \E f \in BOOLEAN : DstMempoolRead(f)
  \/ Broadcast
  \/ \E t \in {"success", "failure"} : MineSource(t)
  \/ Tick
  \/ RelayDestination
  \/ \E t \in {"success", "failure"} : MineDestination(t)

StatusSpec == StatusInit /\ [][StatusNext]_vars

\* ------------------------------------------------- trackRelayWithCallback
\* One trackRelayWithCallback loop (kind "relaycb") polls getRelayStatus, whose
\* calls run read by read as above, over the same chains.  The loop has no
\* abort signal and no entry in activeRelayWatchers.  Its onUpdate invocations
\* are appended to `updates`; the callback is taken to return normally, and
\* getRelayStatus catches every error, so the catch block of poll is not
\* entered.  One unit of the loop's time is one Granule.

RelayCbLoops == {l \in LoopIds : loops[l].kind = "relaycb"}

\* RelayWatchOptions merged over DEFAULT_RELAY_OPTIONS.
RelayCbOptions ==
  [maxWaitTime : Deadlines, pollInterval : Intervals, enableProgressUpdates : BOOLEAN]

\* let lastProgress = 0, assigned the progress of every update sent after a
\* getRelayStatus call; the timeout update carries lastProgress itself.
LastProgress(l) ==
  IF UpdatesOf(l) = << >> THEN Pct(0) ELSE UpdatesOf(l)[Len(UpdatesOf(l))].progress

\* onUpdate(update) of trackRelayWithCallback
RelayDeliver(l, u) ==
  Append(updates, [loop |-> l, status |-> u.status, progress |-> u.progress, error |-> u.error])

\* relayStatus.progress !== lastProgress || opts.enableProgressUpdates
SendsUpdate(l, progress) ==
  ~PctEq(progress, LastProgress(l)) \/ ropts.enableProgressUpdates

\* The call of getRelayStatus made by poll, up to its first read.
PollCall == [NoOut EXCEPT !.pc = "srcReceipt", !.srcAt = env.src, !.dstAt = env.dst]

\* trackRelayWithCallback: the first poll runs synchronously up to its call of
\* getRelayStatus (no time has passed, so the timeout test fails).
trackRelayWithCallback(r) ==
  /\ service = "relaycb"
  /\ NoCall
  /\ loops = << >>
  /\ loops' = Append(loops, NewLoop("relaycb", r))
  /\ out' = PollCall
  /\ UNCHANGED <<env, updates, bal, service, opts, ropts, activeWatchers, activeRelayWatchers>>

\* trackRelayWithCallback.poll, from its start to its call of getRelayStatus:
\* past maxWaitTime it sends a failed update at lastProgress and returns.
RelayCbTick(l) ==
  /\ l \in RelayCbLoops
  /\ loops[l].pc = "sleeping"
  /\ loops[l].sleepLeft = 0
  /\ IF RelayTimedOut(l)
       THEN LET u == [status |-> "failed", progress |-> LastProgress(l),
                      error |-> ErrRelayTimeout]
            IN  /\ updates' = RelayDeliver(l, u)
                /\ loops' = Settle(loops, l, u)
                /\ UNCHANGED out
       ELSE /\ loops' = IssueRead(l)
            /\ out' = PollCall
            /\ UNCHANGED updates
  /\ UNCHANGED <<env, bal, service, opts, ropts, activeWatchers, activeRelayWatchers>>

\* trackRelayWithCallback.poll, from the return of getRelayStatus to the next
\* suspension.  The loop keeps nothing of the call but relayStatus.
RelayCbRead(l) ==
  /\ l \in RelayCbLoops
  /\ loops[l].pc = "reading"
  /\ out.pc = "returned"
  /\ LET relayStatus == [status |-> out.status, progress |-> out.progress, error |-> out.error]
     IN  /\ updates' = IF SendsUpdate(l, relayStatus.progress)
                         THEN RelayDeliver(l, relayStatus) ELSE updates
         /\ loops' = IF RelayTerminal(relayStatus.status)
                       THEN Settle(loops, l, relayStatus)
                       ELSE Sleep(loops, l, ropts.pollInterval)
         /\ out' = NoOut
  /\ UNCHANGED <<env, bal, service, opts, ropts, activeWatchers, activeRelayWatchers>>

\* One Granule passes, for the loop and for the relay.
Elapse ==
  /\ NoCall
  /\ loops' = Advanced
  /\ env' = IF /\ env.src = "success" /\ env.stamped = "atBlock"
                /\ ElapsedTime <= getEstimatedRelayTime(env.srcChain, env.dstChain)
              THEN [env EXCEPT !.age = @ + 1] ELSE env
  /\ UNCHANGED <<out, updates, bal, service, opts, ropts, activeWatchers, activeRelayWatchers>>

\* The bridging API answers tried while a track runs.
TrackApiAnswers ==
  {a \in ApiAnswers :
     a.kind = "ok" => a.status \in {"Processing", "completed", "ERROR"} /\ a.progress # <<150>>}

TrackInit ==
  /\ service = "relaycb"
  /\ opts = DefaultOptions
  /\ ropts \in RelayCbOptions
  /\ loops = << >>
  /\ activeWatchers = [k \in TxKeys |-> NoHandle]
  /\ activeRelayWatchers = [r \in RelayIds |-> NoHandle]
  /\ updates = << >>
  /\ env \in [src : {"unknown"}, age : {0}, stamped : {"atRead", "atBlock"},
              srcChain : {8453}, dstChain : {ApeChainId}, dst : {"none"}]
  /\ out = NoOut
  /\ bal = NoService

TrackNext ==
  \/ \E r \in RelayIds : trackRelayWithCallback(r)
  \/ \E l \in LoopIds : RelayCbTick(l)
  \/ \E l \in LoopIds : RelayCbRead(l)
  \/ \E f \in BOOLEAN : SrcReceiptRead(f)
  \/ \E f \in BOOLEAN : SrcMempoolRead(f)
  \/ \E a \in TrackApiAnswers : ApiRead(a)
  \/ \E f \in BOOLEAN : FallbackReceiptRead(f)
  \/ Resolve
  \/ \E f \in BOOLEAN : DstReceiptRead(f)
  \/ \E f \in BOOLEAN : DstMempoolRead(f)
  \/ Broadcast
  \/ \E t \in {"success", "failure"} : MineSource(t)
  \/ RelayDestination
  \/ \E t \in {"success", "failure"} : MineDestination(t)
  \/ Elapse

TrackSpec == TrackInit /\ [][TrackNext]_vars

\* A track over the built-in readers alone: getTransactionReceipt stamps a
\* receipt with the time of the read, findDestinationTransaction returns
\* null (no destination transaction is ever found), and the bridging API
\* has no record of the relay: its request throws or is answered not OK.
NoRecordAnswers == {a \in ApiAnswers : a.kind # "ok"}

HeuristicInit == TrackInit /\ env.stamped = "atRead"

HeuristicNext ==
  \/ \E r \in RelayIds : trackRelayWithCallback(r)
  \/ \E l \in LoopIds : RelayCbTick(l)
  \/ \E l \in LoopIds : RelayCbRead(l)
  \/ \E f \in BOOLEAN : SrcReceiptRead(f)
  \/ \E f \in BOOLEAN : SrcMempoolRead(f)
  \/ \E a \in NoRecordAnswers : ApiRead(a)
  \/ \E f \in BOOLEAN : FallbackReceiptRead(f)
  \/ Broadcast
  \/ \E t \in {"success", "failure"} : MineSource(t)
  \/ Elapse

HeuristicSpec == HeuristicInit /\ [][HeuristicNext]_vars

\* ------------------------------------------------- BalanceWatcherService
\* One BalanceWatcherService: its two maps, the interval timers of its
\* watches, the pollBalance, getBalance and refreshBalanceAfterTransaction
\* calls in flight, and the balances the chains hold.  A call is suspended on
\* its external read (readContract or the eth_getBalance request), which may
\* return after any time.  Callbacks are taken to return normally.

BalStep == 2500          \* milliseconds in one step of time
MaxWatches == 1          \* watchBalance calls of one behaviour
MaxTicks == 2            \* times the interval timer of one watch fires
MaxGets == 2             \* direct getBalance calls of one behaviour
MaxChanges == 1          \* times a balance changes on its chain

CACHE_DURATION == 5000          \* private readonly CACHE_DURATION = 5000
RefreshDelay == 2000            \* setTimeout(resolve, 2000)
DefaultPollInterval == 10000    \* pollInterval: 10000

\* Balances in wei: 2^53 and 2^53 + 1 are the smallest neighbours that a
\* double cannot tell apart.
Big == "9007199254740992"
BigPlus1 == "9007199254740993"
Wei(k) == IF k = NativeKey THEN {"0", Big, BigPlus1} ELSE {"0", "5"}

\* The balance string of a successful read: parseInt(data.result, 16)
\* .toString() rounds to a double for the native token, balanceResult
\* .toString() of the ERC20 read is exact.
BalanceString(k, wei) ==
  IF k = NativeKey /\ wei = BigPlus1 THEN Big ELSE wei

\* How an external read ends: with a result, with a response that has no
\* result (native token only), or with an error thrown.
BalOutcomes(k) ==
  IF k = NativeKey THEN {"result", "no_result", "throws"} ELSE {"result", "throws"}

PollIntervals == {BalStep, DefaultPollInterval}
MaxWaitTimes == {BalStep, 3 * BalStep}

ErrRefreshTimeout == "Balance refresh timeout"

\* A behaviour exercises, for one key, the direct getBalance calls, or the
\* watches, or a refresh, or a refresh beside a watch ("refreshWatch"); at
\* most one direct call precedes the watches or the refresh.  Or it
\* exercises watches of both keys ("balanceKeys"), two watchBalance calls in
\* all.
BalServices ==
  {"getBalance", "watchBalance", "refreshBalance", "refreshWatch", "balanceKeys"}
WatchLimit ==
  CASE service \in {"watchBalance", "refreshWatch"} -> MaxWatches
    [] service = "balanceKeys" -> Cardinality(BalKeys)
    [] OTHER -> 0
\* The keys the calls of this behaviour pass.
KeyTried(k) == service = "balanceKeys" \/ k = bal.key
GetLimit ==
  CASE service = "getBalance" -> MaxGets
    [] service = "watchBalance" -> IF bal.watches = << >> THEN 1 ELSE 0
    [] service = "refreshWatch" -> 0
    [] OTHER -> IF bal.refresh.pc = "idle" THEN 1 ELSE 0

\* cached && (Date.now() - cached.timestamp) < this.CACHE_DURATION
Fresh(c) == c # NoEntry /\ c.age * BalStep < CACHE_DURATION

\* this.balanceCache.set(key, { balance, timestamp: Date.now() })
CacheSet(cache, k, balance) == [cache EXCEPT ![k] = [balance |-> balance, age |-> 0]]

\* getBalance after its external read ended in o: the balance it returns and
\* the cache it leaves.  A thrown error returns '0' and writes no entry.
Fetched(b, k, o) ==
  CASE o = "throws" -> [balance |-> "0", cache |-> b.balanceCache]
    [] o = "no_result" -> [balance |-> "0", cache |-> CacheSet(b.balanceCache, k, "0")]
    [] OTHER ->
         LET balance == BalanceString(k, b.chain[k])
         IN  [balance |-> balance, cache |-> CacheSet(b.balanceCache, k, balance)]

\* Remove element i of sequence s.
Without(s, i) == SubSeq(s, 1, i - 1) \o SubSeq(s, i + 1, Len(s))

\* pollBalance of watch w, after getBalance returned currentBalance and left
\* the cache `cache`.
PollResume(b, w, currentBalance, cache) ==
  LET k == b.watches[w].key
      previousBalance == cache[k].balance
      changed == previousBalance = Undefined \/ currentBalance # previousBalance
  IN  [b EXCEPT
         !.notes = IF changed
                     THEN Append(@, [watch |-> w, by |-> "poll", balance |-> currentBalance,
                                     previous |-> previousBalance])
                     ELSE @,
         !.balanceCache = CacheSet(cache, k, currentBalance),
         !.watches[w].at = b.chain[k]]

\* pollBalance of watch w, from its start: getBalance(address, chain,
\* tokenAddress) returns a fresh cache entry without a read (and pollBalance
\* resumes at once), or issues its external read.
PollStart(b, w) ==
  LET k == b.watches[w].key
  IN  IF Fresh(b.balanceCache[k])
        THEN PollResume(b, w, b.balanceCache[k].balance, b.balanceCache)
        ELSE [b EXCEPT !.polls = Append(@, w), !.watches[w].reads = @ + 1]

\* Mutant: the cancel of one key clears the watchers and entries of all.
Cancelled_allKeys(b, k) ==
  [b EXCEPT !.watches = [w \in 1..Len(@) |-> [@[w] EXCEPT !.cleared = TRUE]],
            !.activeWatchers = [j \in BalKeys |-> 0],
            !.balanceCache = [j \in BalKeys |-> NoEntry]]

\* cancelBalanceWatch(watcherKey)
Cancelled(b, k) ==
  IF b.activeWatchers[k] # 0
    THEN [b EXCEPT !.watches[b.activeWatchers[k]].cleared = TRUE,
                   !.activeWatchers[k] = 0,
                   !.balanceCache[k] = NoEntry]
    ELSE b

\* watchBalance: cancel the watcher of the key, run pollBalance up to its
\* read, set the interval timer and register the watcher.
watchBalance(k, pollInterval) ==
  /\ KeyTried(k) /\ pollInterval = bal.pollInterval
  /\ Len(bal.watches) < WatchLimit
  /\ LET w == Len(bal.watches) + 1
         b1 == Cancelled(bal, k)
         b2 == [b1 EXCEPT !.watches =
                  Append(@, [key |-> k, pollInterval |-> pollInterval, since |-> 0,
                             cleared |-> FALSE, ticks |-> 0, reads |-> 0, at |-> Undefined])]
         b3 == PollStart(b2, w)
     IN  bal' = [b3 EXCEPT !.activeWatchers[k] = w]
  /\ UNCHANGED watchVars

\* The interval timer of watch w fires: setInterval(pollBalance, pollInterval)
IntervalFire(w) ==
  /\ w \in 1..Len(bal.watches)
  /\ ~bal.watches[w].cleared
  /\ bal.watches[w].since * BalStep >= bal.watches[w].pollInterval
  /\ bal.watches[w].ticks < MaxTicks
  /\ bal' = PollStart([bal EXCEPT !.watches[w].since = 0, !.watches[w].ticks = @ + 1], w)
  /\ UNCHANGED watchVars

\* The external read of the i-th suspended pollBalance ends in o.
PollRead(i, o) ==
  /\ i \in 1..Len(bal.polls)
  /\ LET w == bal.polls[i]
         k == bal.watches[w].key
     IN  /\ o \in BalOutcomes(k)
         /\ LET f == Fetched(bal, k, o)
            IN  bal' = PollResume([bal EXCEPT !.polls = Without(@, i)], w, f.balance, f.cache)
  /\ UNCHANGED watchVars

\* cancelBalanceWatch
cancelBalanceWatch(k) ==
  /\ service \in BalServices
  /\ KeyTried(k)
  /\ bal.watches # << >>
  /\ bal' = Cancelled(bal, k)
  /\ UNCHANGED watchVars

\* cancelAllBalanceWatches
cancelAllBalanceWatches ==
  /\ service \in BalServices
  /\ bal.watches # << >>
  /\ bal' = [bal EXCEPT
               !.watches = [w \in 1..Len(@) |->
                              IF \E k \in BalKeys : bal.activeWatchers[k] = w
                                THEN [@[w] EXCEPT !.cleared = TRUE] ELSE @[w]],
               !.activeWatchers = [k \in BalKeys |-> 0],
               !.balanceCache = [k \in BalKeys |-> NoEntry]]
  /\ UNCHANGED watchVars

\* getBalance called directly: a fresh cache entry is returned without a
\* read when useCache is set, otherwise the external read is issued.
getBalance(k, useCache) ==
  /\ k = bal.key
  /\ Len(bal.gets) < GetLimit
  /\ LET hit == useCache /\ Fresh(bal.balanceCache[k])
     IN  bal' = [bal EXCEPT !.gets =
                   Append(@, [key |-> k, useCache |-> useCache, age |-> 0,
                              gap |-> IF @ = << >> THEN 0 ELSE @[Len(@)].age,
                              pc |-> IF hit THEN "done" ELSE "reading",
                              reads |-> IF hit THEN 0 ELSE 1,
                              balance |-> IF hit THEN bal.balanceCache[k].balance
                                                 ELSE Undefined])]
  /\ UNCHANGED watchVars

\* The external read of the i-th direct getBalance call ends in o.
GetRead(i, o) ==
  /\ i \in 1..Len(bal.gets)
  /\ bal.gets[i].pc = "reading"
  /\ o \in BalOutcomes(bal.gets[i].key)
  /\ LET f == Fetched(bal, bal.gets[i].key, o)
     IN  bal' = [bal EXCEPT !.gets[i].pc = "done", !.gets[i].balance = f.balance,
                            !.balanceCache = f.cache]
  /\ UNCHANGED watchVars

\* Mutant: the deadline of a refresh is not checked.
RefreshTimedOut_never(r) == FALSE

\* Date.now() - startTime > maxWaitTime
RefreshTimedOut(r) == r.elapsed * BalStep > r.maxWaitTime

\* refreshBalanceAfterTransaction.poll, from its start to its read.
RefreshPoll(r) ==
  IF RefreshTimedOut(r)
    THEN [r EXCEPT !.pc = "done", !.error = ErrRefreshTimeout]
    ELSE [r EXCEPT !.pc = "polling", !.reads = @ + 1]

\* refreshBalanceAfterTransaction, up to the read of the initial balance.
refreshBalanceAfterTransaction(k, maxWaitTime) ==
  /\ service \in {"refreshBalance", "refreshWatch"}
  /\ k = bal.key /\ maxWaitTime = bal.maxWaitTime
  /\ bal.refresh.pc = "idle"
  /\ bal' = [bal EXCEPT !.refresh =
               [NoRefresh EXCEPT !.pc = "baseline", !.key = k, !.maxWaitTime = maxWaitTime,
                                 !.reads = 1]]
  /\ UNCHANGED watchVars

\* Mutant: no balance counts as different from the initial one.
Changed_never(currentBalance, initialBalance) == FALSE

\* currentBalance !== initialBalance
Changed(currentBalance, initialBalance) == currentBalance # initialBalance

\* A read of refreshBalanceAfterTransaction ends in o: the initial balance is
\* kept and the first poll starts, or a poll compares its balance with the
\* initial one, notifies the watcher registered for the key and returns the
\* update, or waits.
RefreshRead(o) ==
  /\ bal.refresh.pc \in {"baseline", "polling"}
  /\ o \in BalOutcomes(bal.refresh.key)
  /\ LET r == [bal.refresh EXCEPT !.last = Fetched(bal, bal.refresh.key, o).balance]
         f == Fetched(bal, r.key, o)
         watcher == bal.activeWatchers[r.key]
         b == [bal EXCEPT !.balanceCache = f.cache]
     IN  bal' =
           IF r.pc = "baseline"
             THEN [b EXCEPT !.refresh = RefreshPoll([r EXCEPT !.initial = f.balance])]
           ELSE IF Changed(f.balance, r.initial)
             THEN [b EXCEPT
                     !.refresh = [r EXCEPT !.pc = "done", !.balance = f.balance,
                                           !.previous = r.initial],
                     !.notes = IF watcher # 0
                                 THEN Append(@, [watch |-> watcher, by |-> "refresh",
                                                 balance |-> f.balance, previous |-> r.initial])
                                 ELSE @]
             ELSE [b EXCEPT !.refresh = [r EXCEPT !.pc = "sleeping", !.slept = 0]]
  /\ UNCHANGED watchVars

\* The timer of refreshBalanceAfterTransaction is due: return poll()
RefreshWake ==
  /\ bal.refresh.pc = "sleeping"
  /\ bal.refresh.slept * BalStep >= RefreshDelay
  /\ bal' = [bal EXCEPT !.refresh = RefreshPoll(@)]
  /\ UNCHANGED watchVars

\* The balance of key k changes on its chain.
ChainChange(k, wei) ==
  /\ service \in BalServices
  /\ k = bal.key
  /\ bal.changes < MaxChanges
  /\ wei \in Wei(k) /\ wei # bal.chain[k]
  /\ bal' = [bal EXCEPT !.chain[k] = wei, !.changes = @ + 1]
  /\ UNCHANGED watchVars

\* One step of time passes.  Each duration is counted up to the point where
\* the test that reads it has turned.
BalAdvance ==
  /\ service \in BalServices
  /\ bal' = [bal EXCEPT
       !.balanceCache = [k \in BalKeys |->
                           IF Fresh(@[k]) THEN [@[k] EXCEPT !.age = @ + 1] ELSE @[k]],
       !.watches = [w \in 1..Len(@) |->
                      IF ~@[w].cleared /\ @[w].since * BalStep < @[w].pollInterval
                        THEN [@[w] EXCEPT !.since = @ + 1] ELSE @[w]],
       !.gets = [i \in 1..Len(@) |->
                   IF service = "getBalance" /\ @[i].age * BalStep <= CACHE_DURATION
                     THEN [@[i] EXCEPT !.age = @ + 1] ELSE @[i]],
       !.refresh = IF @.pc \in {"idle", "done"} THEN @
                   ELSE [@ EXCEPT
                           !.elapsed = IF RefreshTimedOut(bal.refresh) THEN @ ELSE @ + 1,
                           !.slept = IF bal.refresh.pc = "sleeping" /\ @ * BalStep < RefreshDelay
                                       THEN @ + 1 ELSE @]]
  /\ UNCHANGED watchVars

\* The service after construction, in a behaviour that exercises `sv`.
BalStart(sv) ==
  /\ service = sv
  /\ opts = DefaultOptions
  /\ ropts = DefaultRelayOptions
  /\ loops = << >>
  /\ activeWatchers = [k \in TxKeys |-> NoHandle]
  /\ activeRelayWatchers = [r \in RelayIds |-> NoHandle]
  /\ updates = << >>
  /\ env = NoEnv
  /\ out = NoOut
  /\ \E k \in BalKeys, wei \in {"0", "5", Big} :
       \E p \in CASE sv = "watchBalance" -> PollIntervals
                   [] sv \in {"refreshWatch", "balanceKeys"} -> {BalStep}
                   [] OTHER -> {0},
          m \in CASE sv = "refreshBalance" -> MaxWaitTimes
                   [] sv = "refreshWatch" -> {BalStep}
                   [] OTHER -> {0} :
         /\ wei \in Wei(k)
         /\ bal = [NoBal EXCEPT !.key = k, !.pollInterval = p, !.maxWaitTime = m,
                                !.chain[k] = wei]

GetInit == BalStart("getBalance")

GetNext ==
  \/ \E k \in BalKeys, useCache \in BOOLEAN : getBalance(k, useCache)
  \/ \E i \in 1..MaxGets, o \in {"result", "no_result", "throws"} : GetRead(i, o)
  \/ \E k \in BalKeys, wei \in Wei(NativeKey) \cup Wei(TokenKey) : ChainChange(k, wei)
  \/ BalAdvance

GetSpec == GetInit /\ [][GetNext]_vars

WatchInit == BalStart("watchBalance")

WatchNext ==
  \/ \E k \in BalKeys, p \in PollIntervals : watchBalance(k, p)
  \/ \E w \in 1..MaxWatches : IntervalFire(w)
  \/ \E i \in 1..(MaxWatches * (MaxTicks + 1)), o \in {"result", "no_result", "throws"} :
       PollRead(i, o)
  \/ \E k \in BalKeys : cancelBalanceWatch(k)
  \/ cancelAllBalanceWatches
  \/ \E k \in BalKeys, useCache \in BOOLEAN : getBalance(k, useCache)
  \/ \E i \in 1..MaxGets, o \in {"result", "no_result", "throws"} : GetRead(i, o)
  \/ \E k \in BalKeys, wei \in Wei(NativeKey) \cup Wei(TokenKey) : ChainChange(k, wei)
  \/ BalAdvance

WatchSpec == WatchInit /\ [][WatchNext]_vars

RefreshInit == BalStart("refreshBalance")

RefreshNext ==
  \/ \E k \in BalKeys, useCache \in BOOLEAN : getBalance(k, useCache)
  \/ \E i \in 1..MaxGets, o \in {"result", "no_result", "throws"} : GetRead(i, o)
  \/ \E k \in BalKeys, m \in MaxWaitTimes : refreshBalanceAfterTransaction(k, m)
  \/ \E o \in {"result", "no_result", "throws"} : RefreshRead(o)
  \/ RefreshWake
  \/ \E k \in BalKeys, wei \in Wei(NativeKey) \cup Wei(TokenKey) : ChainChange(k, wei)
  \/ BalAdvance

RefreshSpec == RefreshInit /\ [][RefreshNext]_vars

\* The scheduling of a refresh: time passes, its timer fires when due, and
\* the read it has issued returns, with a value or an error.
RefreshFairness ==
  /\ WF_vars(BalAdvance)
  /\ WF_vars(RefreshWake)
  /\ WF_vars(\E o \in {"result", "no_result", "throws"} : RefreshRead(o))

RefreshLiveSpec == RefreshSpec /\ RefreshFairness

\* A refresh beside a watch of the same key, both with the shortest interval
\* and deadline tried.
ObserveInit == BalStart("refreshWatch")

ObserveNext ==
  \/ \E k \in BalKeys, p \in PollIntervals : watchBalance(k, p)
  \/ \E w \in 1..MaxWatches : IntervalFire(w)
  \/ \E i \in 1..(MaxWatches * (MaxTicks + 1)), o \in {"result", "no_result", "throws"} :
       PollRead(i, o)
  \/ \E k \in BalKeys : cancelBalanceWatch(k)
  \/ \E k \in BalKeys, m \in MaxWaitTimes : refreshBalanceAfterTransaction(k, m)
  \/ \E o \in {"result", "no_result", "throws"} : RefreshRead(o)
  \/ RefreshWake
  \/ \E k \in BalKeys, wei \in Wei(NativeKey) \cup Wei(TokenKey) : ChainChange(k, wei)
  \/ BalAdvance

ObserveSpec == ObserveInit /\ [][ObserveNext]_vars

KeyTicks == 1            \* times the timer of one watch fires beside another key's

\* The three watchers, each with two keys: the transaction watches, or the
\* relay tracks, or balance watches of both keys.
KeysInit ==
  \/ Init
  \/ BalStart("balanceKeys") /\ bal.key = NativeKey /\ bal.chain[NativeKey] = Big

KeysNext ==
  \/ \E k \in TxKeys : watchTransaction(k)
  \/ \E l \in LoopIds : TxTick(l)
  \/ \E l \in LoopIds, o \in RpcOutcomes : TxRead(l, o)
  \/ \E k \in TxKeys : cancelWatch(k)
  \/ cancelAllWatches
  \/ \E r \in RelayIds : trackRelay(r)
  \/ \E l \in LoopIds : RelayTick(l)
  \/ \E l \in LoopIds, st \in RelayStatuses : RelayRead(l, st)
  \/ \E r \in RelayIds : cancelRelayTracking(r)
  \/ cancelAllRelayTracking
  \/ Advance
  \/ \E k \in BalKeys, p \in PollIntervals : watchBalance(k, p)
  \/ /\ service \in BalServices
     /\ \E w \in 1..Len(bal.watches) : bal.watches[w].ticks < KeyTicks /\ IntervalFire(w)
  \/ /\ service \in BalServices
     /\ \E i \in 1..(Cardinality(BalKeys) * (KeyTicks + 1)),
           o \in {"result", "throws"} : PollRead(i, o)
  \/ \E k \in BalKeys : cancelBalanceWatch(k)
  \/ cancelAllBalanceWatches
  \/ BalAdvance

KeysSpec == KeysInit /\ [][KeysNext]_vars

\* ================================================================ claims

\* The registry of the service loop l belongs to.
RegistryOf(l) == IF loops[l].kind = "tx" THEN activeWatchers ELSE activeRelayWatchers
\* The loops of a key that have not ended.
LiveLoops(kind, key) ==
  {l \in LoopIds : loops[l].kind = kind /\ loops[l].key = key /\ loops[l].pc # "done"}
\* A step in which loop l's timer fired and its tick ran up to its suspension or end.
TickOf(l) == loops[l].pc = "sleeping" /\ loops'[l].pc # "sleeping"
\* A step in which loop l's read returned and the tick ran on.
ReadReturnOf(l) == loops[l].pc = "reading" /\ loops'[l].pc # "reading"

\* C1 (as claimed): in every reachable state at most one poll loop that has not
\* yet terminated exists per (chainId, transactionHash) key.
C1_SingleFlightTx ==
  \A k \in TxKeys : Cardinality(LiveLoops("tx", k)) <= 1

\* C2: a watch call for a key with a registered handle starts no second loop
\* and issues no read, and its caller holds the registered promise; a new loop
\* is started only for a key without a handle; a settled promise keeps its
\* outcome, so every caller holding it observes the same one.
C2_Dedup ==
  [][ /\ Len(loops') > Len(loops) =>
           LET n == loops'[Len(loops')]
           IN  n.kind = "tx" => activeWatchers[n.key] = NoHandle
      /\ \A l \in TxLoops :
           loops'[l].callers # loops[l].callers =>
             /\ loops'[l].callers = loops[l].callers + 1
             /\ activeWatchers[loops[l].key] = l
             /\ activeWatchers' = activeWatchers
             /\ Len(loops') = Len(loops)
             /\ \A m \in LoopIds : /\ loops'[m].reads = loops[m].reads
                                   /\ loops'[m].pc = loops[m].pc
      /\ \A l \in TxLoops :
           loops[l].pc = "done" =>
             loops'[l].pc = "done" /\ loops'[l].result = loops[l].result
    ]_vars

\* Two callers hold the promise of one loop, which has settled as confirmed.
C2_Witness ==
  \E l \in TxLoops :
    loops[l].callers >= 2 /\ loops[l].pc = "done" /\ loops[l].result.status = "confirmed"

\* C3 (as claimed): in every reachable state at most one tracking loop that
\* has not yet terminated exists per relayId.
C3_SingleFlightRelay ==
  \A r \in RelayIds : Cardinality(LiveLoops("relay", r)) <= 1

\* C4: no handle whose loop has ended, by whichever exit path, is in the
\* registry, for transaction watches and for relay tracks.
C4_Cleanup ==
  \A l \in LoopIds : loops[l].pc = "done" => RegistryOf(l)[loops[l].key] # l

\* Two loops have ended by different exit paths, one of them by cancellation.
C4_Witness ==
  \E l, m \in LoopIds :
    /\ loops[l].pc = "done" /\ loops[m].pc = "done"
    /\ loops[l].result.status = "rejected"
    /\ loops[m].result.status \in {"confirmed", "completed", "failed"}

\* C5 (as claimed): a cancelled watch or track ends with the cancellation
\* error, whichever phase it was in when cancelled; it never resolves with a
\* status.
C5_CancelledRejects ==
  \A l \in LoopIds :
    loops[l].aborted /\ loops[l].pc = "done" => loops[l].result.status = "rejected"

\* C6: at the start of a tick the signal is tested before the deadline and the
\* deadline before the read: a tick that starts with the signal set ends with
\* the cancellation error and no read, also when the deadline is exceeded; a
\* tick that starts past the deadline issues no read.
C6_CheckOrder ==
  [][ \A l \in LoopIds :
        TickOf(l) =>
          /\ loops[l].aborted =>
               /\ loops'[l].pc = "done"
               /\ loops'[l].result.status = "rejected"
               /\ loops'[l].result.error =
                    (IF loops[l].kind = "tx" THEN ErrTxCancelled ELSE ErrRelayCancelled)
               /\ loops'[l].reads = loops[l].reads
          /\ loops[l].elapsed > Deadline(l) =>
               loops'[l].pc = "done" /\ loops'[l].reads = loops[l].reads
    ]_vars

\* A relay track ended with the cancellation error at a tick past its deadline.
C6_Witness ==
  \E l \in RelayLoops :
    /\ loops[l].pc = "done" /\ loops[l].result.error = ErrRelayCancelled
    /\ loops[l].elapsed > ropts.maxWaitTime

\* C7: a tick of a transaction watch that starts, not cancelled, with elapsed
\* time greater than timeout ends the watch failed with the timeout error,
\* reads no receipt and consumes no retry, however many retries remain.
C7_DeadlinePriority ==
  [][ \A l \in TxLoops :
        TickOf(l) /\ ~loops[l].aborted /\ loops[l].elapsed > opts.timeout =>
          /\ loops'[l].pc = "done"
          /\ loops'[l].result = [status |-> "failed", error |-> ErrTxTimeout, receipt |-> "none"]
          /\ loops'[l].reads = loops[l].reads
          /\ loops'[l].retries = loops[l].retries
    ]_vars

\* A watch that would have accepted any receipt, with retries left, ended by timeout.
C7_Witness ==
  \E l \in TxLoops :
    /\ loops[l].pc = "done" /\ loops[l].result.error = ErrTxTimeout
    /\ loops[l].retries < opts.maxRetries
    /\ opts.confirmationsRequired <= Confirmations

\* A watch, never cancelled, with timeout < retryInterval that has ended
\* without ever reading a receipt.
C8_Case(l) ==
  /\ loops[l].kind = "tx" /\ loops[l].pc = "done"
  /\ opts.timeout < opts.retryInterval
  /\ ~loops[l].aborted /\ loops[l].receipts = 0

\* C8 (as claimed): whenever timeout < retryInterval and no receipt is ever
\* found, the watch ends with the timeout reason without the retry counter
\* having been incremented (read for a watch that has a retry budget, as in
\* the claim's example, where maxRetries keeps its default).
C8_TimeoutNoRetry ==
  \A l \in LoopIds :
    C8_Case(l) /\ opts.maxRetries >= 1 =>
      /\ loops[l].result.status = "failed"
      /\ loops[l].result.error = ErrTxTimeout
      /\ loops[l].retries = 0

\* C8 (amended): whenever timeout < retryInterval and no receipt is ever
\* found, a watch with maxRetries >= 1 ends failed with the timeout reason at
\* its second tick, after one read, one increment of the retry counter and one
\* wait of retryInterval; a watch with maxRetries = 0 ends at its first read
\* with the maximum-retries reason.
C8_TimeoutAfterOneRetry ==
  \A l \in LoopIds :
    C8_Case(l) =>
      /\ loops[l].result.status = "failed"
      /\ loops[l].reads = 1
      /\ IF opts.maxRetries = 0
           THEN /\ loops[l].result.error = ErrTxNotFound
                /\ loops[l].retries = 0 /\ loops[l].sleeps = 0
           ELSE /\ loops[l].result.error = ErrTxTimeout
                /\ loops[l].retries = 1 /\ loops[l].sleeps = 1
                /\ loops[l].elapsed > opts.timeout

\* The watch of the amended claim has ended by timeout with one retry consumed.
C8_Witness ==
  \E l \in LoopIds :
    C8_Case(l) /\ loops[l].result.error = ErrTxTimeout /\ loops[l].retries = 1

\* C9: every increment of the retry counter starts one wait; a watch that
\* never reads a receipt and is ended neither by its deadline nor by
\* cancellation ends failed with the maximum-retries reason, with the counter
\* incremented exactly maxRetries times, on read number maxRetries + 1.
C9_RetryExhaustion ==
  \A l \in TxLoops :
    /\ loops[l].sleeps = loops[l].retries
    /\ loops[l].pc = "sleeping" => loops[l].sleepLeft <= opts.retryInterval
    /\ ( /\ loops[l].pc = "done" /\ loops[l].receipts = 0
         /\ loops[l].result.status # "rejected"
         /\ loops[l].result.error # ErrTxTimeout )
       => /\ loops[l].result =
               [status |-> "failed", error |-> ErrTxNotFound, receipt |-> "none"]
          /\ loops[l].retries = opts.maxRetries
          /\ loops[l].reads = opts.maxRetries + 1

\* A watch with the largest retry budget has spent it on absent receipts.
C9_Witness ==
  \E l \in TxLoops :
    /\ loops[l].pc = "done" /\ loops[l].result.error = ErrTxNotFound
    /\ loops[l].receipts = 0
    /\ opts.maxRetries = MaxRetriesOpt /\ loops[l].retries = MaxRetriesOpt

\* The read of loop l has returned a receipt short of confirmationsRequired.
C10_ShallowRead(l) ==
  /\ ReadReturnOf(l)
  /\ loops'[l].last \in {"success", "failure"}
  /\ Confirmations < opts.confirmationsRequired

\* C10 (as claimed): a receipt short of confirmationsRequired never ends the
\* watch as confirmed or as a receipt-derived failed, and each such read
\* consumes exactly one unit of the retry counter and is followed by a wait of
\* retryInterval.
C10_ShallowAlwaysRetries ==
  [][ \A l \in TxLoops :
        C10_ShallowRead(l) =>
          /\ loops'[l].result.receipt = "none"
          /\ loops'[l].retries = loops[l].retries + 1
          /\ loops'[l].pc = "sleeping"
          /\ loops'[l].sleepLeft = opts.retryInterval
    ]_vars

\* C10 (amended): a receipt short of confirmationsRequired never ends the
\* watch as confirmed or as a receipt-derived failed; while retries remain,
\* each such read consumes exactly one unit of the retry counter and is
\* followed by a wait of retryInterval; with the counter spent, the read ends
\* the watch failed with the maximum-retries reason.
C10_ShallowRetriesWhileLeft ==
  [][ \A l \in TxLoops :
        C10_ShallowRead(l) =>
          /\ loops'[l].result.receipt = "none"
          /\ loops'[l].result.status # "confirmed"
          /\ IF loops[l].retries < opts.maxRetries
               THEN /\ loops'[l].retries = loops[l].retries + 1
                    /\ loops'[l].sleeps = loops[l].sleeps + 1
                    /\ loops'[l].pc = "sleeping"
                    /\ loops'[l].sleepLeft = opts.retryInterval
               ELSE /\ loops'[l].retries = loops[l].retries
                    /\ loops'[l].pc = "done"
                    /\ loops'[l].result =
                         [status |-> "failed", error |-> ErrTxNotFound, receipt |-> "none"]
    ]_vars

\* A watch waits after a read that returned a receipt short of confirmations.
C10_Witness ==
  \E l \in TxLoops :
    /\ loops[l].pc = "sleeping" /\ loops[l].last \in {"success", "failure"}
    /\ Confirmations < opts.confirmationsRequired
    /\ loops[l].retries >= 1

\* C11: a watch that resolves does so with status confirmed or failed, never
\* pending, dropped, replaced or not_found; it is confirmed exactly when its
\* terminating read returned a receipt with enough confirmations and execution
\* status success, then with that receipt attached; a terminating receipt with
\* execution status failure gives failed with that receipt attached.
C11_TerminalClassification ==
  \A l \in TxLoops :
    loops[l].pc = "done" /\ loops[l].result.status # "rejected" =>
      LET res == loops[l].result
          enough == Confirmations >= opts.confirmationsRequired
      IN  /\ res.status \in {"confirmed", "failed"}
          /\ res.status = "confirmed" <=> (loops[l].last = "success" /\ enough)
          /\ res.status = "confirmed" => res.receipt = "success"
          /\ (loops[l].last = "failure" /\ enough) =>
                res.status = "failed" /\ res.receipt = "failure"

\* A watch has ended failed on a receipt with execution status failure, read
\* after a retry.
C11_Witness ==
  \E l \in TxLoops :
    /\ loops[l].pc = "done" /\ loops[l].result.status = "failed"
    /\ loops[l].result.receipt = "failure" /\ loops[l].retries >= 1

\* C13: a receipt read of a watch whose request fails with a network error
\* while retries remain does not end the watch and surfaces nothing (the read
\* counts as a missing receipt, no result is set); it adds exactly one to the
\* retry counter and starts one wait of retryInterval before the next tick.
C13_TransientReadTx ==
  [][ \A l \in TxLoops :
        ( /\ ReadReturnOf(l)
          /\ loops'[l].lastRpc = "network_error"
          /\ loops[l].retries < opts.maxRetries )
        => /\ loops'[l].last = "absent"
           /\ loops'[l].pc = "sleeping"
           /\ loops'[l].result = NoResult
           /\ loops'[l].retries = loops[l].retries + 1
           /\ loops'[l].sleeps = loops[l].sleeps + 1
           /\ loops'[l].sleepLeft = opts.retryInterval
           /\ loops'[l].reads = loops[l].reads
    ]_vars

\* A watch waits for its last retry after a read that failed with a network error.
C13_Witness ==
  \E l \in TxLoops :
    /\ loops[l].pc = "sleeping" /\ loops[l].lastRpc = "network_error"
    /\ loops[l].retries = opts.maxRetries /\ opts.maxRetries >= 1

\* C12: the callback of a watchWithProgress loop receives one pending update
\* per non-terminal read, then exactly one update with status confirmed or
\* failed, which is the last invocation and equals the returned result; a read
\* that returns a success receipt ends the loop confirmed at once, so a first
\* success on read k gives exactly k reads and k-1 pending updates before the
\* confirmed one.
C12_ProgressStream ==
  \A l \in CbLoops :
    LET u == UpdatesOf(l)
        n == Len(u)
        IsPending(i) == u[i] = [loop |-> l, status |-> "pending", error |-> "", receipt |-> "none"]
    IN  /\ loops[l].pc # "done" =>
              /\ n = loops[l].retries
              /\ n = IF loops[l].pc = "reading" THEN loops[l].reads - 1 ELSE loops[l].reads
              /\ \A i \in 1..n : IsPending(i)
        /\ loops[l].pc = "done" =>
              /\ n = loops[l].retries + 1
              /\ \A i \in 1..(n - 1) : IsPending(i)
              /\ u[n].status \in {"confirmed", "failed"}
              /\ [status |-> u[n].status, error |-> u[n].error, receipt |-> u[n].receipt]
                   = loops[l].result
        /\ loops[l].last = "success" =>
              /\ loops[l].pc = "done"
              /\ loops[l].result.status = "confirmed"
              /\ n = loops[l].reads

\* A loop got its success receipt on the third read: two pending updates, then
\* the confirmed one.
C12_Witness ==
  \E l \in CbLoops :
    /\ loops[l].pc = "done" /\ loops[l].result.status = "confirmed"
    /\ loops[l].reads = 3 /\ Len(UpdatesOf(l)) = 3

\* The call has returned after finding the source confirmed and the bridging
\* API without a record (it threw or answered not OK).
Degraded(o) ==
  o.pc = "returned" /\ o.srcStatus = "confirmed" /\ o.api.kind \in {"throws", "not_ok"}

\* C14 (as claimed): a getRelayStatus call in which a single source-chain read
\* (the receipt read or the mempool lookup) ends in a network error, for a
\* source transaction the chain holds and that has not failed, never returns
\* the terminal status failed, which would end a track.
C14_TransientReadRelay ==
  ( /\ out.pc = "returned"
    /\ Cardinality(out.failed) = 1
    /\ out.failed \subseteq {"srcReceipt", "srcMempool"}
    /\ out.srcAt \in {"mempool", "success"} )
  => ~(out.status = "failed" /\ RelayTerminal(out.status))

\* C15 (as claimed): every result with status failed of a watch, of a
\* watchWithProgress loop (whose final update is its result) and of
\* getRelayStatus carries a non-empty error string.
C15_FailureHasReason ==
  /\ \A l \in TxLoops \cup CbLoops :
       loops[l].pc = "done" /\ loops[l].result.status = "failed" =>
         loops[l].result.error # ""
  /\ out.pc = "returned" /\ out.status = "failed" => out.error # ""

\* C16: a getRelayStatus call that finds the source failed or not_found
\* returns failed with progress 0, one that finds it pending returns pending
\* with progress 25; in all three cases it calls neither the bridging API nor
\* the destination resolver (nor the fallback's receipt read).
C16_ShortCircuit ==
  out.pc = "returned" =>
    /\ out.srcStatus \in {"failed", "not_found"} =>
         /\ out.status = "failed" /\ out.progress = Pct(0)
         /\ out.apiCalls = 0 /\ out.resolverCalls = 0 /\ ~out.receipt
    /\ out.srcStatus = "pending" =>
         /\ out.status = "pending" /\ out.progress = Pct(25)
         /\ out.apiCalls = 0 /\ out.resolverCalls = 0 /\ ~out.receipt

\* A call found the source failed after an earlier call had found it pending.
C16_Witness ==
  /\ out.pc = "returned" /\ out.srcStatus = "failed"
  /\ out.srcAt = "failure" /\ out.prev.status = "pending"

\* C17: a getRelayStatus call that finds the source confirmed and gets a
\* record from the bridging API returns that record (its progress, or 0 for a
\* record without one) without the heuristic and without the destination
\* resolver, the vendor state mapped whatever its case: pending -> pending,
\* processing/bridging -> relaying, completed/success -> completed,
\* failed/error -> failed, anything else or no state -> initiated.
C17_ApiAuthoritative ==
  out.pc = "returned" /\ out.srcStatus = "confirmed" /\ out.api.kind = "ok" =>
    /\ out.status =
         (CASE out.api.status = "pending" -> "pending"
            [] out.api.status \in {"Processing", "BRIDGING"} -> "relaying"
            [] out.api.status \in {"completed", "Success"} -> "completed"
            [] out.api.status \in {"failed", "ERROR"} -> "failed"
            [] OTHER -> "initiated")
    /\ out.progress = Pct(IF out.api.progress = << >> THEN 0 ELSE out.api.progress[1])
    /\ out.apiCalls = 1 /\ out.resolverCalls = 0 /\ ~out.receipt

\* The API's record, with its state in capitals, was returned as relaying.
C17_Witness ==
  /\ out.pc = "returned" /\ out.srcStatus = "confirmed"
  /\ out.api.kind = "ok" /\ out.api.status = "BRIDGING" /\ out.status = "relaying"

\* C18: with the source confirmed and the bridging API throwing or not OK,
\* getRelayStatus returns the heuristic result: initiated with progress 10
\* exactly when the fallback obtains no source receipt, else relaying,
\* completed or failed; it returns a terminal status (which ends a track) only
\* from the destination lookup, completed for a destination transaction that
\* succeeded and failed for one that failed, never because of the API.
C18_GracefulDegradation ==
  Degraded(out) =>
    /\ out.apiCalls = 1
    /\ IF out.receipt
         THEN /\ out.status \in {"relaying", "completed", "failed"}
              /\ out.elapsed <= out.estimate =>
                    out.status = "relaying" /\ out.resolverCalls = 0
         ELSE /\ out.status = "initiated" /\ out.progress = Pct(10)
              /\ "receipt" \in out.failed
    /\ RelayTerminal(out.status) =>
         /\ out.resolverCalls = 1
         /\ out.elapsed > out.estimate
         /\ out.status = "completed" => out.dstAt = "success" /\ out.progress = Pct(100)
         /\ out.status = "failed" => out.dstAt = "failure"

\* With the API throwing, a call returned relaying after an earlier call had
\* returned initiated.
C18_Witness ==
  /\ Degraded(out) /\ out.api.kind = "throws"
  /\ out.status = "relaying" /\ out.prev.status = "initiated"

\* The call has returned from the fallback with a source receipt.
Heuristic(o) == Degraded(o) /\ o.receipt

C21_ProgressRange ==
  out.pc = "returned" => PctLeq(Pct(0), out.progress) /\ PctLeq(out.progress, Pct(100))

\* C22 (as claimed): in the sequence of updates delivered to the callback of
\* a trackWithProgress loop, the progress of each update is not lower than the
\* progress of the update before it, whatever results the polls derive.
C22_MonotoneUpdates ==
  \A l \in RelayCbLoops :
    \A i \in 1..(Len(UpdatesOf(l)) - 1) :
      PctLeq(UpdatesOf(l)[i].progress, UpdatesOf(l)[i + 1].progress)

\* C23 (as claimed): whether enableProgressUpdates is true or false, the
\* updates delivered by a trackWithProgress loop that has returned end with
\* exactly one terminal update (completed or failed): it is the last one, no
\* update before it is terminal, and it carries the status of the returned
\* record.  With enableProgressUpdates false, an update built from a
\* getRelayStatus result has a progress that differs from the progress of the
\* update delivered before it.
C23_StreamTermination ==
  \A l \in RelayCbLoops :
    LET us == UpdatesOf(l)
    IN  /\ loops[l].pc = "done" =>
             /\ us # << >>
             /\ RelayTerminal(us[Len(us)].status)
             /\ us[Len(us)].status = loops[l].result.status
             /\ \A i \in 1..(Len(us) - 1) : ~RelayTerminal(us[i].status)
        /\ ~ropts.enableProgressUpdates =>
             \A i \in 1..(Len(us) - 1) :
               us[i + 1].error # ErrRelayTimeout
                 => ~PctEq(us[i].progress, us[i + 1].progress)

\* C24: every transaction watch and every relay track eventually ends,
\* whatever its reads return (never a receipt, only receipts short of
\* confirmations, only errors, only non-terminal relay statuses), and a tick
\* that starts after the deadline (timeout, maxWaitTime) ends its loop.
C24_Termination ==
  /\ \A l \in 1..MaxCalls :
       (Len(loops) >= l) ~> (Len(loops) >= l /\ loops[l].pc = "done")
  /\ [][\A l \in LoopIds :
          ( /\ loops[l].pc = "sleeping" /\ loops'[l].pc # "sleeping"
            /\ loops[l].elapsed > Deadline(l) )
          => loops'[l].pc = "done"]_vars

\* A track whose polls never returned a terminal status has ended by its
\* deadline, after at least two polls.
C24_Witness ==
  \E l \in RelayLoops :
    /\ loops[l].pc = "done" /\ loops[l].result.error = ErrRelayTimeout
    /\ loops[l].reads >= 2

\* C25 (as claimed): two getBalance calls with useCache set, for the same
\* key, made within CACHE_DURATION of each other issue exactly one external
\* read in total, also when the second is made before the read of the first
\* has returned; a call made after CACHE_DURATION has elapsed since the call
\* before it issues a new external read.
C25_CacheFreshness ==
  ( /\ Len(bal.gets) = 2
    /\ bal.gets[1].useCache /\ bal.gets[2].useCache
    /\ bal.gets[1].key = bal.gets[2].key )
  => /\ bal.gets[2].gap * BalStep < CACHE_DURATION
          => bal.gets[1].reads + bal.gets[2].reads = 1
     /\ bal.gets[2].gap * BalStep > CACHE_DURATION
          => bal.gets[2].reads = 1

\* The pollBalance calls of watch w that have run to their end.
PollsDone(b, w) ==
  1 + b.watches[w].ticks - Cardinality({i \in 1..Len(b.polls) : b.polls[i] = w})

\* C26 (as claimed): when a poll of a running watch ends and the balance on
\* the chain differs from the one at the end of the poll before it,
\* onBalanceChange is invoked exactly once, with the previous and the new
\* value; when the balance is the same, it is not invoked.
C26_ChangeNotification ==
  [][\A w \in 1..Len(bal.watches) :
       ( /\ ~bal.watches[w].cleared
         /\ bal.watches[w].at # Undefined
         /\ PollsDone(bal', w) > PollsDone(bal, w) )
       => LET k == bal.watches[w].key
              old == bal.watches[w].at
              new == bal'.watches[w].at
          IN  IF new # old
                THEN bal'.notes =
                       Append(bal.notes, [watch |-> w, by |-> "poll",
                                          balance |-> BalanceString(k, new),
                                          previous |-> BalanceString(k, old)])
                ELSE bal'.notes = bal.notes]_vars

\* C27 (as claimed): watchBalance performs an uncached initial read (it
\* issues an external read even when a fresh cache entry exists), every later
\* tick issues an external read, and when a poll has ended the cache entry of
\* the key holds a new timestamp.
C27_WatchReads ==
  /\ [](\A w \in 1..Len(bal.watches) : bal.watches[w].reads = 1 + bal.watches[w].ticks)
  /\ [][\A w \in 1..Len(bal.watches) :
          PollsDone(bal', w) > PollsDone(bal, w)
            => bal'.balanceCache[bal.watches[w].key].age = 0]_vars

\* C28 (as claimed): after cancelBalanceWatch on an active watch the key has
\* no registered watcher and no cache entry, and no later step of the
\* cancelled watch, a poll that was in flight included, invokes its
\* onBalanceChange or writes a cache entry for the key.
C28_Cancellation ==
  [][ /\ \A k \in BalKeys :
           (bal.activeWatchers[k] # 0 /\ bal'.activeWatchers[k] = 0)
             => bal'.balanceCache[k] = NoEntry
      /\ \A w \in 1..Len(bal.watches) :
           (bal.watches[w].cleared /\ PollsDone(bal', w) > PollsDone(bal, w))
             => /\ bal'.notes = bal.notes
                /\ bal'.balanceCache[bal.watches[w].key] = bal.balanceCache[bal.watches[w].key]
    ]_vars

\* C29: refreshAfterTransaction issues an external read for its initial
\* balance and for every poll also when the cache entry of the key is fresh,
\* starts a poll after a wait only when RefreshDelay has passed, and at the
\* end of each poll read either returns the update (balance the value just
\* read, previousBalance the initial balance) if that value differs from the
\* initial balance, whatever time is left, or goes to wait if it does not.
C29_RefreshSuccess ==
  [][LET r == bal.refresh
         q == bal'.refresh
     IN  /\ (r.pc # q.pc /\ q.pc \in {"baseline", "polling"}) => q.reads = r.reads + 1
         /\ (r.pc = "sleeping" /\ q.pc # "sleeping") => r.slept * BalStep >= RefreshDelay
         /\ (r.pc = "polling" /\ q.pc # "polling") =>
              IF q.last # r.initial
                THEN /\ q.pc = "done" /\ q.error = ""
                     /\ q.balance = q.last /\ q.previous = r.initial
                ELSE q.pc = "sleeping"
         /\ (q.pc = "done" /\ q.error = "") => q.balance # q.initial
    ]_vars

\* The chain returned the same balance to three reads and another one to the
\* fourth, and the refresh returned an update before maxWaitTime had passed.
C29_Witness ==
  /\ bal.refresh.pc = "done" /\ bal.refresh.error = ""
  /\ bal.refresh.reads = 4
  /\ bal.refresh.balance = BalanceString(bal.key, bal.chain[bal.key])
  /\ bal.changes = 1
  /\ bal.refresh.elapsed * BalStep < bal.refresh.maxWaitTime

\* C30: a refreshAfterTransaction call always ends; a poll that starts after
\* maxWaitTime has passed fails with the timeout error and a poll that starts
\* before issues its read; a call none of whose reads differed from the
\* initial balance ends with the timeout error, and no call returns an update
\* whose balance equals the initial balance.
C30_RefreshTimeout ==
  /\ (bal.refresh.pc # "idle") ~> (bal.refresh.pc = "done")
  /\ [][LET r == bal.refresh
            q == bal'.refresh
        IN  (r.pc \in {"baseline", "sleeping"} /\ q.pc # r.pc) =>
              IF r.elapsed * BalStep > r.maxWaitTime
                THEN q.pc = "done" /\ q.error = ErrRefreshTimeout
                ELSE q.pc = "polling"]_vars
  /\ [](bal.refresh.pc = "done" =>
          /\ bal.refresh.last = bal.refresh.initial => bal.refresh.error = ErrRefreshTimeout
          /\ bal.refresh.error = "" => bal.refresh.balance # bal.refresh.initial)

\* A refresh whose reads all returned the initial balance has failed with the
\* timeout error, after polling more than once.
C30_Witness ==
  /\ bal.refresh.pc = "done" /\ bal.refresh.error = ErrRefreshTimeout
  /\ bal.refresh.last = bal.refresh.initial
  /\ bal.refresh.reads >= 3

\* C31 (as claimed): when refreshAfterTransaction detects a change of the
\* balance on the chain while a watch is registered for the key, it invokes
\* onBalanceChange of that watch, and that invocation is the only one made
\* with that change (the same previous and new value), the invocations made
\* by the watch's own polls counted.  Checked where one poll of the watch has
\* ended, after the change.
C31_ExactlyOnce ==
  [][LET w == bal.activeWatchers[bal.key]
         n == [watch |-> w, by |-> "refresh", balance |-> bal'.refresh.balance,
               previous |-> bal'.refresh.previous]
     IN  ( /\ bal.refresh.pc = "polling" /\ bal'.refresh.pc = "done"
           /\ bal'.refresh.error = ""
           /\ w # 0
           /\ bal.changes = 1
           /\ bal'.refresh.balance = BalanceString(bal.key, bal.chain[bal.key])
           /\ PollsDone(bal, w) = 1
           /\ bal.watches[w].at = bal.chain[bal.key] )
         => /\ bal'.notes = Append(bal.notes, n)
            /\ \A j \in 1..Len(bal.notes) :
                 ~( /\ bal.notes[j].watch = w
                    /\ bal.notes[j].balance = n.balance
                    /\ bal.notes[j].previous = n.previous )
    ]_vars

\* C32 (as claimed): a new poll of a watch never starts before the external
\* read of the poll before it has returned, so at most one external read per
\* watch is in flight at any time, whatever the latency of the read relative
\* to the poll interval.  (A transaction watch and a relay track start a tick
\* only from the timer set after the read of the tick before it; the polls
\* of a balance watch are started by an interval timer.)
C32_SequentialTicks ==
  \A w \in 1..Len(bal.watches) :
    Cardinality({i \in 1..Len(bal.polls) : bal.polls[i] = w}) <= 1

\* C33 (as claimed): a watchWithProgress loop never delivers a confirmed
\* update, nor a failed update derived from a receipt, for a receipt whose
\* confirmation count is below confirmationsRequired, and such a receipt does
\* not end the loop with the receipt attached.
C33_ProgressConfirmations ==
  \A l \in CbLoops :
    Confirmations < opts.confirmationsRequired =>
      /\ \A i \in 1..Len(UpdatesOf(l)) :
           UpdatesOf(l)[i].status # "confirmed" /\ UpdatesOf(l)[i].receipt = "none"
      /\ loops[l].result.receipt = "none"

\* C34 (as claimed): after cancelWatch(key) or cancelAllWatches() a
\* watchWithProgress loop of that key issues no new external read beyond the
\* one in flight, and the next tick it starts ends it without a read.
C34_ProgressCancellation ==
  [][\A l \in CbLoops :
       loops[l].cancelAsked =>
         /\ loops'[l].reads = loops[l].reads
         /\ TickOf(l) => loops'[l].pc = "done"
    ]_vars

\* C35: cancelWatch and cancelRelayTracking (and their cancel-all forms) set
\* the signal of a loop and leave the loop where it is, so a read in flight
\* runs to its end; a loop whose signal is set issues no new read, and the
\* next tick it starts ends it.
C35_CooperativeCancel ==
  [][\A l \in LoopIds :
       /\ (~loops[l].aborted /\ loops'[l].aborted) =>
            /\ loops'[l].pc = loops[l].pc
            /\ loops'[l].reads = loops[l].reads
       /\ loops[l].aborted =>
            /\ loops'[l].reads = loops[l].reads
            /\ TickOf(l) => loops'[l].pc = "done"
            /\ ReadReturnOf(l) => loops'[l].pc \in {"sleeping", "done"}
    ]_vars

\* A watch was cancelled while its second read was in flight, the read
\* returned no receipt, and the tick after the wait ended the watch.
C35_Witness ==
  \E l \in TxLoops :
    /\ loops[l].aborted /\ loops[l].pc = "done"
    /\ loops[l].result.status = "rejected"
    /\ loops[l].reads = 2 /\ loops[l].sleeps = 2

\* C36 (as claimed): when the external read of a poll of a running watch
\* fails while the cache holds a balance for the key, onBalanceChange is not
\* invoked and the cached balance stays as it was.
C36_TransientBalanceRead ==
  [][\A i \in 1..Len(bal.polls) :
       LET w == bal.polls[i]
           k == bal.watches[w].key
       IN  ( /\ PollRead(i, "throws")
             /\ ~bal.watches[w].cleared
             /\ bal.balanceCache[k] # NoEntry )
           => /\ bal'.notes = bal.notes
              /\ bal'.balanceCache[k].balance = bal.balanceCache[k].balance
    ]_vars

\* C37 (as claimed): the cleanup of a loop that ends removes no handle that a
\* later watch or track call registered for the same key: a loop that is
\* still running and was not cancelled has its handle in the registry.
C37_OwnHandle ==
  \A l \in TxLoops \cup RelayLoops :
    (loops[l].pc # "done" /\ ~loops[l].aborted) => RegistryOf(l)[loops[l].key] = l

\* C38: in every reachable state of a watch loop and of a watchWithProgress
\* loop the retry counter lies in 0..maxRetries and at most maxRetries + 1
\* receipt reads have been issued; a loop that ends with the maximum-retries
\* reason has issued exactly maxRetries + 1 reads, whether its reads found no
\* receipt or failed with an error.
C38_RetryBound ==
  \A l \in TxLoops \cup CbLoops :
    /\ 0 <= loops[l].retries /\ loops[l].retries <= opts.maxRetries
    /\ loops[l].reads <= opts.maxRetries + 1
    /\ loops[l].reads <= loops[l].retries + 1
    /\ (loops[l].pc = "done" /\ loops[l].result.error = ErrTxNotFound) =>
          loops[l].reads = opts.maxRetries + 1 /\ loops[l].retries = opts.maxRetries

\* A watchWithProgress loop with the largest retry budget has ended with the
\* maximum-retries reason on a read that failed with a network error.
C38_Witness ==
  \E l \in CbLoops :
    /\ loops[l].pc = "done" /\ loops[l].result.error = ErrTxNotFound
    /\ loops[l].lastRpc = "network_error"
    /\ opts.maxRetries = MaxRetriesOpt /\ loops[l].reads = MaxRetriesOpt + 1

\* C39: with receipts stamped at the time of the read, no destination
\* transaction found and no record from the bridging API, no getRelayStatus
\* call returns completed or progress 100 and no update of a track carries
\* them; a poll that finds the source confirmed never ends the track, and a
\* track that ends does so failed, at its deadline with the timeout error
\* unless a poll did not find the source confirmed.
C39_HeuristicOnly ==
  /\ [](/\ out.pc = "returned" =>
             /\ out.status # "completed" /\ ~PctEq(out.progress, Pct(100))
             /\ out.resolverCalls = 0
             /\ out.srcStatus = "confirmed" => ~RelayTerminal(out.status)
        /\ \A i \in 1..Len(updates) :
             updates[i].status # "completed" /\ ~PctEq(updates[i].progress, Pct(100))
        /\ \A l \in RelayCbLoops :
             loops[l].pc = "done" =>
               /\ loops[l].result.status = "failed"
               /\ loops[l].result.error \in {ErrRelayTimeout, ErrSourceNotFound, ErrSourceFailed})
  /\ [][\A l \in RelayCbLoops :
          (ReadReturnOf(l) /\ out.srcStatus = "confirmed") => loops'[l].pc = "sleeping"]_vars

\* A track whose polls found the source confirmed and reported it relaying
\* has ended at its deadline with the timeout error.
C39_Witness ==
  \E l \in RelayCbLoops :
    /\ loops[l].pc = "done" /\ loops[l].result.error = ErrRelayTimeout
    /\ env.src = "success"
    /\ loops[l].reads >= 2
    /\ \E i \in 1..Len(UpdatesOf(l)) :
         UpdatesOf(l)[i].status = "relaying" /\ PctEq(UpdatesOf(l)[i].progress, Pct(50))

\* The key of the watch whose timer fires or whose read ends in a step of
\* the balance watcher; "none" for every other step.
PolledKey ==
  IF service \notin BalServices THEN "none"
  ELSE IF \E w \in 1..Len(bal.watches) : IntervalFire(w)
    THEN bal.watches[CHOOSE w \in 1..Len(bal.watches) : IntervalFire(w)].key
  ELSE IF \E i \in 1..Len(bal.polls), o \in {"result", "no_result", "throws"} : PollRead(i, o)
    THEN bal.watches[bal.polls[CHOOSE i \in 1..Len(bal.polls) :
                       \E o \in {"result", "no_result", "throws"} : PollRead(i, o)]].key
  ELSE "none"

\* C40: a cancel of key k on any of the three watchers leaves the handle,
\* the loop or timer, the callback and the cache entry of every other key as
\* they were, and a tick or a read of one key's loop or poll leaves the
\* registry and cache entries of the other keys as they were; for the
\* balance watcher a cancel of a key without an active watcher changes
\* nothing, and cancelAll leaves no watcher, no running timer and no cache
\* entry.
C40_KeyIndependence ==
  [][/\ \A k \in TxKeys :
          cancelWatch(k) =>
            /\ \A k2 \in TxKeys \ {k} : activeWatchers'[k2] = activeWatchers[k2]
            /\ \A l \in LoopIds : loops[l].key # k => loops'[l] = loops[l]
            /\ updates' = updates
     /\ \A r \in RelayIds :
          cancelRelayTracking(r) =>
            /\ \A r2 \in RelayIds \ {r} : activeRelayWatchers'[r2] = activeRelayWatchers[r2]
            /\ \A l \in LoopIds : loops[l].key # r => loops'[l] = loops[l]
            /\ updates' = updates
     /\ \A l \in TxLoops \cup RelayLoops :
          (TickOf(l) \/ ReadReturnOf(l)) =>
            /\ \A k2 \in TxKeys \ {loops[l].key} : activeWatchers'[k2] = activeWatchers[k2]
            /\ \A r2 \in RelayIds \ {loops[l].key} :
                 activeRelayWatchers'[r2] = activeRelayWatchers[r2]
            /\ \A j \in LoopIds \ {l} : loops'[j] = loops[j]
     /\ \A k \in BalKeys :
          (service \in BalServices /\ cancelBalanceWatch(k)) =>
            /\ \A k2 \in BalKeys \ {k} :
                 /\ bal'.activeWatchers[k2] = bal.activeWatchers[k2]
                 /\ bal'.balanceCache[k2] = bal.balanceCache[k2]
            /\ \A w \in 1..Len(bal.watches) :
                 bal.watches[w].key # k => bal'.watches[w] = bal.watches[w]
            /\ bal'.notes = bal.notes
            /\ bal.activeWatchers[k] = 0 => bal' = bal
     /\ \A k \in BalKeys :
          PolledKey = k =>
            /\ bal'.activeWatchers = bal.activeWatchers
            /\ \A k2 \in BalKeys \ {k} : bal'.balanceCache[k2] = bal.balanceCache[k2]
            /\ \A w \in 1..Len(bal.watches) :
                 bal.watches[w].key # k => bal'.watches[w] = bal.watches[w]
     /\ (service \in BalServices /\ cancelAllBalanceWatches) =>
          /\ \A k \in BalKeys :
               bal'.activeWatchers[k] = 0 /\ bal'.balanceCache[k] = NoEntry
          /\ \A w \in 1..Len(bal.watches) : bal'.watches[w].cleared
    ]_vars

\* Both keys were watched and read, then the watch of one key was cancelled:
\* its timer is cleared and its cache entry gone, while the watch of the other
\* key is still registered with its timer running and its cache entry kept.
C40_Witness ==
  /\ service = "balanceKeys"
  /\ \E k \in BalKeys, k2 \in BalKeys :
       /\ k # k2
       /\ bal.activeWatchers[k] = 0 /\ bal.balanceCache[k] = NoEntry
       /\ \E w \in 1..Len(bal.watches) :
            bal.watches[w].key = k /\ bal.watches[w].cleared /\ bal.watches[w].reads > 0
       /\ bal.activeWatchers[k2] # 0
       /\ ~bal.watches[bal.activeWatchers[k2]].cleared
       /\ bal.balanceCache[k2] # NoEntry

====
